---- MODULE Spec2Model ----
(***************************************************************************)
(* GitHub Stars Manager: the annotation stores (localStorage and Supabase), *)
(* the facade over them, the card edit handlers, the filter/sort engine and *)
(* the application start-up, as state machines.                            *)
(*                                                                         *)
(* A text is a sequence of one-character strings, so that trim(),          *)
(* toLowerCase(), includes() and JSON.stringify / JSON.parse are computed. *)
(***************************************************************************)
EXTENDS Integers, Sequences, FiniteSets, TLC

\* ------------------------------------------------------------------ bounds
NumRepos == 1       \* repository ids 1..NumRepos
MaxLen == 2         \* longest text typed into a tag input
MaxTags == 2        \* longest custom_tags list a card grows to
MaxInflight == 2    \* remote calls in flight at once
MaxFaults == 1      \* storage requests that fail in one run

RepoIds == 1..NumRepos

\* ------------------------------------------------------------------- texts
InputChars == {"a", "A", " "}

StrUpTo(chars, n) == UNION {[1..k -> chars] : k \in 0..n}

\* What a user can type into a tag input.
TagInputs == StrUpTo(InputChars, MaxLen)

\* String.prototype.toLowerCase, one character.
LowerChar(c) == CASE c = "A" -> "a"
                  [] c = "B" -> "b"
                  [] OTHER -> c

ToLowerCase(s) == [i \in 1..Len(s) |-> LowerChar(s[i])]

RECURSIVE TrimStart(_)
TrimStart(s) == IF s # <<>> /\ Head(s) = " " THEN TrimStart(Tail(s)) ELSE s

RECURSIVE TrimEnd(_)
TrimEnd(s) == IF s # <<>> /\ s[Len(s)] = " "
              THEN TrimEnd(SubSeq(s, 1, Len(s) - 1))
              ELSE s

\* String.prototype.trim
Trim(s) == TrimEnd(TrimStart(s))

\* Array.prototype.includes
Includes(list, x) == \E i \in 1..Len(list) : list[i] = x

\* Mutant of FilterOut: the test inverted, filter(t => t === tag).
FilterOut_KeepOnly(list, tag) == SelectSeq(list, LAMBDA t : t = tag)

\* Array.prototype.filter(t => t !== tag)
FilterOut(list, tag) == SelectSeq(list, LAMBDA t : t # tag)

\* String.prototype.includes: needle is a substring of hay.
StrIncludes(hay, needle) ==
  \E i \in 0..(Len(hay) - Len(needle)) :
    \A j \in 1..Len(needle) : hay[i + j] = needle[j]

\* ------------------------------------------------------ JSON of a tag list
RECURSIVE JoinQuoted(_)
JoinQuoted(tags) ==
  IF tags = <<>> THEN <<>>
  ELSE <<"\"">> \o Head(tags) \o <<"\"">>
       \o (IF Tail(tags) = <<>> THEN <<>> ELSE <<",">> \o JoinQuoted(Tail(tags)))

\* JSON.stringify of an array of strings (no character here needs an escape).
JSONStringify(tags) == <<"[">> \o JoinQuoted(tags) \o <<"]">>

\* JSON.parse of such a text: scan it, collecting the quoted strings.
RECURSIVE ParseFrom(_, _, _, _, _)
ParseFrom(text, i, inStr, cur, acc) ==
  IF i > Len(text) THEN acc
  ELSE IF text[i] = "\""
       THEN IF inStr THEN ParseFrom(text, i + 1, FALSE, <<>>, Append(acc, cur))
                     ELSE ParseFrom(text, i + 1, TRUE, <<>>, acc)
       ELSE IF inStr THEN ParseFrom(text, i + 1, TRUE, Append(cur, text[i]), acc)
                     ELSE ParseFrom(text, i + 1, FALSE, cur, acc)

JSONParse(text) == ParseFrom(text, 1, FALSE, <<>>, <<>>)

\* ------------------------------------------------------- localStorage keys
CUSTOM_TAGS_PREFIX == "custom_tags_"
NOTES_PREFIX == "notes_"
DARK_MODE == "dark_mode"

\* Number -> decimal text (the ids of the model have one digit).
Digit(n) == CASE n = 0 -> "0" [] n = 1 -> "1" [] n = 2 -> "2" [] n = 3 -> "3"
              [] n = 4 -> "4" [] n = 5 -> "5" [] n = 6 -> "6" [] n = 7 -> "7"
              [] n = 8 -> "8" [] n = 9 -> "9"

NumToString(n) == <<Digit(n)>>

\* parseInt of a decimal text.
ParseInt(s) == CHOOSE n \in 0..9 : NumToString(n) = s

\* prefix + repoId: the prefix is one token, the id its decimal text.
KeyOf(prefix, repoId) == <<prefix>> \o NumToString(repoId)

StartsWith(key, prefix) == key # <<>> /\ Head(key) = prefix

\* key.replace(prefix, '')
StripPrefix(key, prefix) == IF StartsWith(key, prefix) THEN Tail(key) ELSE key

\* ------------------------------------------------------------------- state
VARIABLES
  useSupabase,      \* customData.js: the facade's backend flag
  localStorage,     \* the browser's key-value store: key -> text
  tagRows,          \* Supabase table custom_tags, rows in creation order
  noteRows,         \* Supabase table notes: repo_id -> content
  repos,            \* the enriched records the cards hold: id -> [custom_tags, notes]
  calls,            \* remote facade calls in flight, in the order they were issued
  faults,           \* storage requests that have failed so far
  synced,           \* history: id -> the last tag write of id was stored whole, alone
  lastOp,           \* history: the last handler or facade call that ran
  lastDone,         \* history: the last remote call that returned
  rt,               \* history: the last export / import round trip
  imported,         \* history: the last importCustomData call
  toast,            \* components.js showToast: the last toast put on the page
  consoleLog,       \* customData.js showToast: the last line it logged
  url,              \* window.location.search, as its parameters
  features,         \* constants.js FEATURES
  timers,           \* the search box and the notes fields: text, pending timeouts
  bursts,           \* history: the input events and timeouts of each field
  allRepositories,  \* filters.js: the list the engine holds
  currentFilters,   \* filters.js: the filter state
  rendered,         \* what applyFilters handed to the presentation layer
  initPc,           \* where init() is
  starsData,        \* what loadStarsData returned
  response          \* history: what the fetch of the data file gave

storeVars == <<useSupabase, localStorage, tagRows, noteRows, calls, faults>>
cardVars == <<repos, synced, lastOp, lastDone>>
filterVars == <<allRepositories, currentFilters, rendered>>
initVars == <<initPc, starsData, response>>
noticeVars == <<toast, consoleLog>>
timerVars == <<timers, bursts>>
pageVars == <<url, features, timerVars>>
vars == <<storeVars, cardVars, rt, imported, noticeVars, filterVars, initVars, pageVars>>

EmptyFn == [x \in {} |-> <<>>]

\* ------------------------------------------------- localStorage (Web Storage)
HasItem(ls, key) == key \in DOMAIN ls

SetItem(ls, key, value) ==
  [k \in DOMAIN ls \cup {key} |-> IF k = key THEN value ELSE ls[k]]

RemoveItem(ls, key) == [k \in DOMAIN ls \ {key} |-> ls[k]]

\* ------------------------------------------ local backend (customData.js)
\* getCustomTags: data ? JSON.parse(data) : []
LocalGetCustomTags(ls, repoId) ==
  LET key == KeyOf(CUSTOM_TAGS_PREFIX, repoId)
  IN IF HasItem(ls, key) /\ ls[key] # <<>> THEN JSONParse(ls[key]) ELSE <<>>

\* setCustomTags, the write going through: setItem(key, JSON.stringify(tags))
LocalSetCustomTags(ls, repoId, tags) ==
  SetItem(ls, KeyOf(CUSTOM_TAGS_PREFIX, repoId), JSONStringify(tags))

\* getNotes: localStorage.getItem(key) || ''
LocalGetNotes(ls, repoId) ==
  LET key == KeyOf(NOTES_PREFIX, repoId)
  IN IF HasItem(ls, key) THEN ls[key] ELSE <<>>

\* setNotes, the write going through: the text as given, or removeItem
LocalSetNotes(ls, repoId, notes) ==
  LET key == KeyOf(NOTES_PREFIX, repoId)
  IN IF Trim(notes) # <<>> THEN SetItem(ls, key, notes) ELSE RemoveItem(ls, key)

\* ------------------------------------------------ remote backend (supabase.js)
\* select('tag').eq('repo_id', repoId).order('created_at')
RemoteGetCustomTags(rows, repoId) ==
  LET mine == SelectSeq(rows, LAMBDA row : row.repo_id = repoId)
  IN [i \in 1..Len(mine) |-> mine[i].tag]

\* Mutant of RemoteDeleteTags: the eq('repo_id', repoId) dropped.
RemoteDeleteTags_All(rows, repoId) == <<>>

\* Mutant of RemoteDeleteTags: the request deletes nothing.
RemoteDeleteTags_None(rows, repoId) == rows

\* delete().eq('repo_id', repoId)
RemoteDeleteTags(rows, repoId) == SelectSeq(rows, LAMBDA row : row.repo_id # repoId)

\* delete().eq('repo_id', repoId).eq('tag', tag)
RemoteDeleteTag(rows, repoId, tag) ==
  SelectSeq(rows, LAMBDA row : ~(row.repo_id = repoId /\ row.tag = tag))

\* tags.map(tag => ({repo_id, tag: tag.toLowerCase().trim()}))
RowsOf(repoId, tags) ==
  [i \in 1..Len(tags) |-> [repo_id |-> repoId, tag |-> Trim(ToLowerCase(tags[i]))]]

\* UNIQUE(repo_id, tag): the statement is rejected whole (error 23505).
UniqueViolation(rows, new) ==
  \/ \E i \in 1..Len(new) : \E j \in 1..Len(rows) : new[i] = rows[j]
  \/ \E i, j \in 1..Len(new) : i # j /\ new[i] = new[j]

\* insert(rows)
RemoteInsert(rows, new) == IF UniqueViolation(rows, new) THEN rows ELSE rows \o new

\* select('content').eq('repo_id', repoId).single(); PGRST116 -> ''
RemoteGetNotes(notes, repoId) == IF repoId \in DOMAIN notes THEN notes[repoId] ELSE <<>>

\* upsert({repo_id, content})
RemoteUpsertNotes(notes, repoId, content) ==
  [k \in DOMAIN notes \cup {repoId} |-> IF k = repoId THEN content ELSE notes[k]]

\* delete().eq('repo_id', repoId)
RemoteDeleteNotes(notes, repoId) == [k \in DOMAIN notes \ {repoId} |-> notes[k]]

\* ------------------------------------------------------- what the facade reads
\* getCustomTags(repoId) on the active backend, the read succeeding.
GetCustomTags(repoId) ==
  IF useSupabase THEN RemoteGetCustomTags(tagRows, repoId)
  ELSE LocalGetCustomTags(localStorage, repoId)

\* getNotes(repoId) on the active backend, the read succeeding.
GetNotes(repoId) ==
  IF useSupabase THEN RemoteGetNotes(noteRows, repoId)
  ELSE LocalGetNotes(localStorage, repoId)

\* Whether the active backend holds a notes entry for repoId.
HasNotesEntry(repoId) ==
  IF useSupabase THEN repoId \in DOMAIN noteRows
  ELSE HasItem(localStorage, KeyOf(NOTES_PREFIX, repoId))

\* ------------------------------------------------------------ history values
NoOp == [op |-> "none", id |-> 0, text |-> <<>>, hit |-> FALSE,
         memBefore |-> <<>>, storedBefore |-> <<>>,
         idleBefore |-> FALSE, syncedBefore |-> FALSE]

\* op(id, tags or text) returned ret (threw: it threw or rejected); alone: no
\* other write of the repository was in flight while it ran; before: what the
\* key held before a local write that was refused; value: what a read returned;
\* failed: its last backend request was refused; deleted: the delete request of
\* a remote setCustomTags went through; duplicate: its insert was rejected by
\* the uniqueness constraint.
NoDone == [op |-> "none", id |-> 0, text |-> <<>>, tags |-> <<>>, ret |-> FALSE,
           alone |-> TRUE, threw |-> FALSE, failed |-> FALSE, deleted |-> FALSE,
           duplicate |-> FALSE, before |-> <<>>, value |-> <<>>]

\* constants.js ERROR_MESSAGES.STORAGE_QUOTA_EXCEEDED
STORAGE_QUOTA_EXCEEDED == "Local storage quota exceeded. Please export and clear old data."

\* What localStorage.getItem(key) gives; null is the empty text here.
GetItem(ls, key) == IF key \in DOMAIN ls THEN ls[key] ELSE <<>>

\* The store as a value.
StoreNow == [localStorage |-> localStorage, tagRows |-> tagRows, noteRows |-> noteRows]

\* No importCustomData call yet. Of a call: what it returned, whether its
\* payload had the export shape, the ids its tags and its notes name, and the
\* store as the call found it, with no call in flight (idle) or not.
NoImport == [pc |-> "none", n |-> 0, ret |-> FALSE, shaped |-> FALSE,
             idle |-> FALSE, tagIds |-> {}, noteIds |-> {},
             store |-> [localStorage |-> <<>>, tagRows |-> <<>>, noteRows |-> <<>>]]

\* A store nothing has been written to.
EmptyStore == [localStorage |-> EmptyFn, tagRows |-> <<>>, noteRows |-> EmptyFn]

NoRt == [pc |-> "idle", doc |-> <<>>, ids |-> {}, store |-> EmptyStore]

\* --------------------------------------------------- remote calls in flight
RemoveAt(seq, i) == SubSeq(seq, 1, i - 1) \o SubSeq(seq, i + 1, Len(seq))

\* A setCustomTags call for repoId has been issued and has not returned.
WriteInFlight(repoId) ==
  \E i \in 1..Len(calls) : calls[i].op = "setCustomTags" /\ calls[i].id = repoId

\* History: the tag writes of repoId in flight no longer run alone.
Taint(cs, repoId) ==
  [i \in 1..Len(cs) |->
     IF cs[i].op = "setCustomTags" /\ cs[i].id = repoId
     THEN [cs[i] EXCEPT !.tainted = TRUE] ELSE cs[i]]

\* ------------------------------------------------ facade: setCustomTags
\* customData.js setCustomTags(repoId, tags). Local: setItem at once, which the
\* quota may refuse (the catch returns false and nothing is stored). Remote:
\* supabase.js setCustomTags starts; its requests are the steps below.
FacadeSetCustomTags(repoId, tags) ==
  IF useSupabase
  THEN /\ Len(calls) < MaxInflight
       /\ calls' = Append(Taint(calls, repoId),
                          [op |-> "setCustomTags", id |-> repoId, tags |-> tags,
                           text |-> <<>>, pc |-> "delete", deleted |-> FALSE,
                           tainted |-> WriteInFlight(repoId)])
       /\ UNCHANGED <<localStorage, tagRows, noteRows, faults, synced, lastDone,
                      consoleLog>>
  ELSE \E ok \in BOOLEAN :
       /\ ok \/ faults < MaxFaults
       /\ localStorage' = IF ok THEN LocalSetCustomTags(localStorage, repoId, tags)
                          ELSE localStorage
       /\ faults' = IF ok THEN faults ELSE faults + 1
       /\ synced' = [synced EXCEPT ![repoId] = ok]
       /\ consoleLog' = IF ok THEN consoleLog ELSE STORAGE_QUOTA_EXCEEDED
       /\ lastDone' = [NoDone EXCEPT
                         !.op = "setCustomTags", !.id = repoId, !.tags = tags,
                         !.ret = ok,
                         !.before = IF ok THEN <<>>
                                    ELSE GetItem(localStorage,
                                                 KeyOf(CUSTOM_TAGS_PREFIX, repoId))]
       /\ UNCHANGED <<tagRows, noteRows, calls>>

\* supabase.js setCustomTags, first request: delete the repository's rows. The
\* result of the request is not looked at: a failed delete goes unnoticed.
\* With no tags to insert the call returns true here.
DeleteStep(i) ==
  /\ i \in 1..Len(calls)
  /\ calls[i].op = "setCustomTags" /\ calls[i].pc = "delete"
  /\ \E ok \in BOOLEAN :
       /\ ok \/ faults < MaxFaults
       /\ tagRows' = IF ok THEN RemoteDeleteTags(tagRows, calls[i].id) ELSE tagRows
       /\ faults' = IF ok THEN faults ELSE faults + 1
       /\ IF calls[i].tags = <<>>
          THEN /\ calls' = RemoveAt(calls, i)
               /\ synced' = [synced EXCEPT ![calls[i].id] = ok /\ ~calls[i].tainted]
               /\ lastDone' = [NoDone EXCEPT
                                 !.op = "setCustomTags", !.id = calls[i].id,
                                 !.tags = calls[i].tags, !.ret = TRUE,
                                 !.alone = ~calls[i].tainted,
                                 !.failed = ~ok, !.deleted = ok]
          ELSE /\ calls' = [calls EXCEPT ![i].pc = "insert", ![i].deleted = ok]
               /\ UNCHANGED <<synced, lastDone>>
  /\ UNCHANGED <<useSupabase, localStorage, noteRows, repos, lastOp, rt,
                 imported, noticeVars, filterVars, initVars, pageVars>>

\* supabase.js setCustomTags, second request: insert the normalized rows; an
\* error (the network, or the uniqueness constraint) is thrown and the catch
\* returns false.
InsertStep(i) ==
  /\ i \in 1..Len(calls)
  /\ calls[i].op = "setCustomTags" /\ calls[i].pc = "insert"
  /\ \E ok \in BOOLEAN :
       /\ ok \/ faults < MaxFaults
       /\ LET new == RowsOf(calls[i].id, calls[i].tags)
              accepted == ok /\ ~UniqueViolation(tagRows, new)
          IN /\ tagRows' = IF ok THEN RemoteInsert(tagRows, new) ELSE tagRows
             /\ synced' = [synced EXCEPT
                             ![calls[i].id] = /\ accepted /\ calls[i].deleted
                                              /\ ~calls[i].tainted]
             /\ lastDone' = [NoDone EXCEPT
                               !.op = "setCustomTags", !.id = calls[i].id,
                               !.tags = calls[i].tags, !.ret = accepted,
                               !.alone = ~calls[i].tainted,
                               !.failed = ~accepted,
                               !.duplicate = ok /\ ~accepted,
                               !.deleted = calls[i].deleted]
       /\ faults' = IF ok THEN faults ELSE faults + 1
  /\ calls' = RemoveAt(calls, i)
  /\ UNCHANGED <<useSupabase, localStorage, noteRows, repos, lastOp, rt,
                 imported, noticeVars, filterVars, initVars, pageVars>>

\* --------------------------------------------------------- the card handlers
\* The normalized tags a card can hold.
Tags == {ToLowerCase(Trim(s)) : s \in TagInputs} \ {<<>>}

\* Mutant of NewTagOf: the toLowerCase() dropped.
NewTagOf_NoLowerCase(input) == Trim(input)

\* cards.js: const newTag = tagInput.value.trim().toLowerCase()
NewTagOf(input) == ToLowerCase(Trim(input))

\* cards.js: the tag input's keydown handler, Enter pressed on a non-blank
\* value. An existing tag: a warning and nothing else. A new one: the whole
\* list goes to the facade (not awaited) and the record is updated.
AddTag(r, input) ==
  /\ Trim(input) # <<>>
  /\ LET newTag == NewTagOf(input)
         currentTags == repos[r].custom_tags
         updatedTags == Append(currentTags, newTag)
         op == [NoOp EXCEPT !.op = "add", !.id = r,
                             !.text = ToLowerCase(Trim(input)),
                             !.hit = Includes(currentTags, newTag)]
     IN IF Includes(currentTags, newTag)
        THEN /\ toast' = "Tag already exists"
             /\ lastOp' = op
             /\ UNCHANGED <<storeVars, repos, synced, lastDone, consoleLog>>
        ELSE /\ Len(currentTags) < MaxTags
             /\ FacadeSetCustomTags(r, updatedTags)
             /\ repos' = [repos EXCEPT ![r].custom_tags = updatedTags]
             /\ toast' = "Tag added"
             /\ lastOp' = op
             /\ UNCHANGED useSupabase
  /\ UNCHANGED <<rt, imported, filterVars, initVars, pageVars>>

\* History of a removal: what was held and stored before it, kept when the tag
\* removed was not there (absent).
Removal(op, r, tag, absent) ==
  [op |-> op, id |-> r, text |-> tag, hit |-> absent,
   memBefore |-> IF absent THEN repos[r].custom_tags ELSE <<>>,
   storedBefore |-> IF absent THEN GetCustomTags(r) ELSE <<>>,
   idleBefore |-> absent /\ ~WriteInFlight(r),
   syncedBefore |-> absent /\ synced[r]]

\* cards.js removeTag(repo, tag, element)
RemoveTag(r, tag) ==
  /\ LET updatedTags == FilterOut(repos[r].custom_tags, tag)
     IN /\ FacadeSetCustomTags(r, updatedTags)
        /\ repos' = [repos EXCEPT ![r].custom_tags = updatedTags]
        /\ toast' = "Tag removed"
        /\ lastOp' = Removal("remove", r, tag, ~Includes(repos[r].custom_tags, tag))
  /\ UNCHANGED <<useSupabase, rt, imported, filterVars, initVars, pageVars>>

\* supabase.js removeCustomTag(repoId, tag): one request; an error is thrown
\* and the catch returns false.
RemoveCustomTag(r, tag) ==
  /\ useSupabase
  /\ \E ok \in BOOLEAN :
       /\ ok \/ faults < MaxFaults
       /\ tagRows' = IF ok THEN RemoteDeleteTag(tagRows, r, tag) ELSE tagRows
       /\ faults' = IF ok THEN faults ELSE faults + 1
       /\ lastDone' = [NoDone EXCEPT !.op = "removeCustomTag", !.id = r,
                                      !.text = tag, !.ret = ok]
  /\ synced' = [synced EXCEPT ![r] = synced[r] /\ tagRows' = tagRows]
  /\ calls' = IF tagRows' = tagRows THEN calls ELSE Taint(calls, r)
  /\ lastOp' = Removal("removeCustomTag", r, tag,
                        ~Includes(RemoteGetCustomTags(tagRows, r), tag))
  /\ UNCHANGED <<useSupabase, localStorage, noteRows, repos, rt, imported,
                 noticeVars, filterVars, initVars, pageVars>>

\* supabase.js addCustomTag(repoId, tag): one insert of the normalized tag;
\* error 23505 (the tag is there already) returns true, any other error is
\* thrown and the catch returns false.
AddCustomTag(r, tag) ==
  /\ useSupabase
  /\ \E ok \in BOOLEAN :
       /\ ok \/ faults < MaxFaults
       /\ LET new == RowsOf(r, <<tag>>)
              code23505 == ok /\ UniqueViolation(tagRows, new)
          IN /\ tagRows' = IF ok THEN RemoteInsert(tagRows, new) ELSE tagRows
             /\ lastDone' = [NoDone EXCEPT !.op = "addCustomTag", !.id = r,
                                            !.text = tag, !.ret = ok,
                                            !.failed = ~ok \/ code23505,
                                            !.duplicate = code23505]
       /\ faults' = IF ok THEN faults ELSE faults + 1
  /\ synced' = [synced EXCEPT ![r] = synced[r] /\ tagRows' = tagRows]
  /\ calls' = IF tagRows' = tagRows THEN calls ELSE Taint(calls, r)
  /\ UNCHANGED <<useSupabase, localStorage, noteRows, repos, lastOp, rt, imported,
                 noticeVars, filterVars, initVars, pageVars>>

\* ---------------------------------------------------------- initial values
DefaultFilters == [search |-> <<>>, language |-> "", topics |-> <<>>,
                   customTags |-> <<>>, sort |-> "stars-desc"]

NoRender == [status |-> "none", filtered |-> <<>>, list |-> <<>>]

StoreInit ==
  /\ useSupabase \in BOOLEAN
  /\ localStorage = (<<DARK_MODE>> :> <<"d", "a", "r", "k">>)
  /\ tagRows = <<>>
  /\ noteRows = EmptyFn
  /\ calls = <<>>
  /\ faults = 0

CardInit ==
  /\ repos = [r \in RepoIds |-> [custom_tags |-> <<>>, notes |-> <<>>]]
  /\ synced = [r \in RepoIds |-> TRUE]
  /\ lastOp = NoOp
  /\ lastDone = NoDone
  /\ imported = NoImport
  /\ toast = "none"
  /\ consoleLog = "none"

FilterIdle ==
  /\ allRepositories = <<>>
  /\ currentFilters = DefaultFilters
  /\ rendered = NoRender

InitIdle ==
  /\ initPc = "idle"
  /\ starsData = <<>>
  /\ response = <<>>

\* A page URL without a query string.
NoQuery == [has |-> {}, search |-> <<>>, language |-> "", topic |-> <<>>, sort |-> ""]

\* ------------------------------------------------------ debounced fields
MaxTimers == 2      \* timeouts of one field pending at once
TicksPer100Ms == 1  \* steps in which 100 ms pass
TickMs == 100 \div TicksPer100Ms

\* constants.js CONFIG.SEARCH_DEBOUNCE_MS; cards.js: the notes field's delay
SEARCH_DEBOUNCE_MS == 300
NOTES_DEBOUNCE_MS == 1000

\* A field with its listener's closure: the text in the field, the timeouts
\* pending (handle -> ms left), and the variable holding the last handle
\* (0: undefined).
NoField == [value |-> <<>>, pending |-> EmptyFn, timeout |-> 0]

\* History of a field: the input events since the last event that followed a
\* timeout (0: none yet), the text of the last event, the time since it, the
\* timeouts that have run since it, and the time and the text of the last run.
NoBurst == [events |-> 0, last |-> <<>>, quiet |-> 0, runs |-> 0, ranAt |-> 0,
            ranWith |-> <<>>]

\* Mutant of ClearTimeout: the clearTimeout call dropped.
ClearTimeout_Dropped(pending, handle) == pending

\* clearTimeout(handle): a handle that is not pending is ignored.
ClearTimeout(pending, handle) == [h \in DOMAIN pending \ {handle} |-> pending[h]]

\* The handle setTimeout returns: one that is not in use.
FreeHandle(pending) == CHOOSE h \in 1..MaxTimers : h \notin DOMAIN pending

\* An input event of a field: clearTimeout(timeout); timeout = setTimeout(.., delay)
KeyIn(field, text, delay) ==
  LET cleared == ClearTimeout(field.pending, field.timeout)
      handle == FreeHandle(cleared)
  IN [value |-> text, pending |-> cleared @@ (handle :> delay), timeout |-> handle]

\* Whether the field can take one more timeout within the bound.
HasFreeHandle(field) ==
  \E h \in 1..MaxTimers : h \notin DOMAIN ClearTimeout(field.pending, field.timeout)

\* History of an input event.
KeyInBurst(burst, text, maxEvents) ==
  [burst EXCEPT !.events = IF burst.runs > 0 THEN 1
                           ELSE IF burst.events < maxEvents THEN burst.events + 1
                           ELSE burst.events,
                !.last = text, !.quiet = 0, !.runs = 0]

\* History of a timeout that runs on the text it reads.
RunBurst(burst, text) ==
  [burst EXCEPT !.runs = burst.runs + 1, !.ranAt = burst.quiet, !.ranWith = text]

\* A timeout whose delay has run out.
Expired(field) == {h \in DOMAIN field.pending : field.pending[h] = 0}

\* TickMs later.
Later(field) ==
  [field EXCEPT !.pending = [h \in DOMAIN field.pending |-> field.pending[h] - TickMs]]

LaterBurst(burst, delay) ==
  [burst EXCEPT !.quiet = IF burst.quiet <= delay THEN burst.quiet + TickMs
                          ELSE burst.quiet]

\* No field has been typed into.
TimersIdle ==
  /\ timers = [search |-> NoField, notes |-> [r \in RepoIds |-> NoField]]
  /\ bursts = [search |-> NoBurst, notes |-> [r \in RepoIds |-> NoBurst]]

\* The page opened without a query string, by a build whose USE_SUPABASE flag
\* is the backend the facade is in.
PlainPage ==
  /\ url = NoQuery
  /\ features = [USE_SUPABASE |-> useSupabase]
  /\ TimersIdle

\* ------------------------------------------- Spec: a page with its cards
\* The page is loaded, the stores are empty, the user edits tags on the cards.
EmptyPage == StoreInit /\ CardInit /\ rt = NoRt /\ FilterIdle /\ InitIdle

Init == EmptyPage /\ PlainPage

Next ==
  \/ \E r \in RepoIds : \E input \in TagInputs : AddTag(r, input)
  \/ \E r \in RepoIds : \E tag \in Tags : RemoveTag(r, tag)
  \/ \E r \in RepoIds : \E tag \in Tags : RemoveCustomTag(r, tag)
  \/ \E i \in 1..MaxInflight : DeleteStep(i)
  \/ \E i \in 1..MaxInflight : InsertStep(i)

Spec == Init /\ [][Next]_vars

\* ------------------------------------------------------------- claims C1, C2
\* The entries of a tag list that normalize (trim, lowercase) to tag.
CountOf(list, tag) ==
  Cardinality({i \in 1..Len(list) : ToLowerCase(Trim(list[i])) = tag})

RawTags == {<<"a">>, <<"A", " ">>, <<"a", "a">>}

TagLists == UNION {[1..k -> RawTags] : k \in 0..MaxTags}

\* Notes texts a caller passes.
NoteInputs == {<<>>, <<" ">>, <<"a">>, <<"a", " ">>}

\* A setNotes call for repoId has been issued and has not returned.
NotesInFlight(repoId) ==
  \E i \in 1..Len(calls) : calls[i].op = "setNotes" /\ calls[i].id = repoId

\* customData.js setCustomTags(repoId, tags), called directly.
SetCustomTags(r, tags) ==
  /\ FacadeSetCustomTags(r, tags)
  /\ UNCHANGED <<useSupabase, repos, lastOp, rt, imported, toast, filterVars, initVars,
                 pageVars>>

\* customData.js: !notes.trim(); supabase.js: trimmedContent === ''
IsBlank(notes) == Trim(notes) = <<>>

\* customData.js setNotes(repoId, notes). Local: removeItem for a blank text,
\* else setItem of the text as given, which the quota may refuse. Remote:
\* supabase.js saveNotes starts; its request is the step below.
FacadeSetNotes(repoId, notes) ==
  IF useSupabase
  THEN /\ Len(calls) < MaxInflight
       /\ calls' = Append(calls, [op |-> "setNotes", id |-> repoId, tags |-> <<>>,
                                  text |-> notes, pc |-> "write", deleted |-> FALSE,
                                  tainted |-> FALSE])
       /\ UNCHANGED <<localStorage, tagRows, noteRows, faults, lastDone, consoleLog>>
  ELSE \E ok \in BOOLEAN :
       /\ ok \/ (~IsBlank(notes) /\ faults < MaxFaults)
       /\ localStorage' = IF ok THEN LocalSetNotes(localStorage, repoId, notes)
                          ELSE localStorage
       /\ faults' = IF ok THEN faults ELSE faults + 1
       /\ consoleLog' = IF ok THEN consoleLog ELSE STORAGE_QUOTA_EXCEEDED
       /\ lastDone' = [NoDone EXCEPT
                         !.op = "setNotes", !.id = repoId, !.text = notes, !.ret = ok,
                         !.before = IF ok THEN <<>>
                                    ELSE GetItem(localStorage, KeyOf(NOTES_PREFIX, repoId))]
       /\ UNCHANGED <<tagRows, noteRows, calls>>

SetNotes(r, notes) ==
  /\ FacadeSetNotes(r, notes)
  /\ UNCHANGED <<useSupabase, repos, synced, lastOp, rt, imported, toast,
                 filterVars, initVars, pageVars>>

\* supabase.js saveNotes, its request. A blank text: a delete whose result is
\* not looked at, and the call returns true. Otherwise an upsert of the trimmed
\* text; its error is thrown and the catch returns false.
SaveNotesStep(i) ==
  /\ i \in 1..Len(calls)
  /\ calls[i].op = "setNotes"
  /\ \E ok \in BOOLEAN :
       /\ ok \/ faults < MaxFaults
       /\ LET trimmedContent == Trim(calls[i].text)
          IN /\ noteRows' =
                  IF ~ok THEN noteRows
                  ELSE IF IsBlank(calls[i].text)
                       THEN RemoteDeleteNotes(noteRows, calls[i].id)
                       ELSE RemoteUpsertNotes(noteRows, calls[i].id, trimmedContent)
             /\ lastDone' = [NoDone EXCEPT
                               !.op = "setNotes", !.id = calls[i].id,
                               !.text = calls[i].text,
                               !.ret = IsBlank(calls[i].text) \/ ok]
       /\ faults' = IF ok THEN faults ELSE faults + 1
  /\ calls' = RemoveAt(calls, i)
  /\ UNCHANGED <<useSupabase, localStorage, tagRows, repos, synced, lastOp, rt,
                 imported, noticeVars, filterVars, initVars, pageVars>>

\* ----------------------------------------------------- facade: import
MaxImports == 1     \* importCustomData calls in one run

\* The keys of an export document: repository ids as decimal texts.
IdTexts == {NumToString(r) : r \in RepoIds}

\* Documents of the export shape: {tags: {id: [tag...]}, notes: {id: text}}.
ImportDocs ==
  {[tags |-> t, notes |-> n] :
     t \in UNION {[K -> TagLists] : K \in SUBSET IdTexts},
     n \in UNION {[K -> NoteInputs] : K \in SUBSET IdTexts}}

\* Object.entries order of integer-like keys: ascending.
RECURSIVE EntriesOrder(_)
EntriesOrder(keys) ==
  IF keys = {} THEN <<>>
  ELSE LET k == CHOOSE x \in keys : \A y \in keys : ParseInt(x) <= ParseInt(y)
       IN <<k>> \o EntriesOrder(keys \ {k})

\* Object.entries(data.tags).forEach(setCustomTags(parseInt(repoId), tags)) on
\* the local backend, for the entries whose write goes through.
RECURSIVE LocalImportTags(_, _, _)
LocalImportTags(ls, tags, keys) ==
  IF keys = <<>> THEN ls
  ELSE LocalImportTags(LocalSetCustomTags(ls, ParseInt(Head(keys)), tags[Head(keys)]),
                       tags, Tail(keys))

\* Object.entries(data.notes).forEach(setNotes(parseInt(repoId), notes)), local.
RECURSIVE LocalImportNotes(_, _, _)
LocalImportNotes(ls, notes, keys) ==
  IF keys = <<>> THEN ls
  ELSE LocalImportNotes(LocalSetNotes(ls, ParseInt(Head(keys)), notes[Head(keys)]),
                        notes, Tail(keys))

\* History: the tag writes in flight of the repositories in ids are not alone.
TaintAll(cs, ids) ==
  [i \in 1..Len(cs) |->
     IF cs[i].op = "setCustomTags" /\ cs[i].id \in ids
     THEN [cs[i] EXCEPT !.tainted = TRUE] ELSE cs[i]]

\* customData.js importCustomData(data), data of the export shape. The writes
\* are started in order and none is awaited; a write that fails returns false
\* to nobody and the import returns true. Local: every write is done (or
\* refused by the quota) before the import returns. Remote: every write is in
\* flight when the import returns.
ImportCustomData(data) ==
  /\ imported.n < MaxImports
  /\ imported' = [pc |-> "returned", n |-> imported.n + 1, ret |-> TRUE,
                  shaped |-> TRUE, idle |-> calls = <<>>,
                  tagIds |-> {ParseInt(k) : k \in DOMAIN data.tags},
                  noteIds |-> {ParseInt(k) : k \in DOMAIN data.notes},
                  store |-> StoreNow]
  /\ LET tagKeys == EntriesOrder(DOMAIN data.tags)
         noteKeys == EntriesOrder(DOMAIN data.notes)
         tagIds == {ParseInt(k) : k \in DOMAIN data.tags}
     IN IF useSupabase
        THEN /\ Len(calls) + Len(tagKeys) + Len(noteKeys) <= MaxInflight
             /\ Len(tagKeys) + Len(noteKeys) > 0
             /\ calls' = TaintAll(calls, tagIds)
                  \o [i \in 1..Len(tagKeys) |->
                        [op |-> "setCustomTags", id |-> ParseInt(tagKeys[i]),
                         tags |-> data.tags[tagKeys[i]], text |-> <<>>,
                         pc |-> "delete", deleted |-> FALSE,
                         tainted |-> WriteInFlight(ParseInt(tagKeys[i]))]]
                  \o [i \in 1..Len(noteKeys) |->
                        [op |-> "setNotes", id |-> ParseInt(noteKeys[i]),
                         tags |-> <<>>, text |-> data.notes[noteKeys[i]],
                         pc |-> "write", deleted |-> FALSE, tainted |-> FALSE]]
             /\ UNCHANGED <<localStorage, tagRows, noteRows, faults, synced, lastDone,
                            consoleLog>>
        ELSE \E failT \in SUBSET DOMAIN data.tags :
             \E failN \in SUBSET {k \in DOMAIN data.notes : ~IsBlank(data.notes[k])} :
               /\ faults + Cardinality(failT) + Cardinality(failN) <= MaxFaults
               /\ localStorage' =
                    LocalImportNotes(
                      LocalImportTags(localStorage, data.tags,
                                      EntriesOrder(DOMAIN data.tags \ failT)),
                      data.notes, EntriesOrder(DOMAIN data.notes \ failN))
               /\ faults' = faults + Cardinality(failT) + Cardinality(failN)
               /\ synced' = [r \in RepoIds |->
                               IF NumToString(r) \in DOMAIN data.tags
                               THEN NumToString(r) \notin failT
                               ELSE synced[r]]
               /\ consoleLog' = IF failT \cup failN = {} THEN consoleLog
                                 ELSE STORAGE_QUOTA_EXCEEDED
               /\ lastDone' = [NoDone EXCEPT !.op = "importCustomData", !.ret = TRUE]
               /\ UNCHANGED <<tagRows, noteRows, calls>>
  /\ UNCHANGED <<useSupabase, repos, lastOp, rt, toast, filterVars, initVars,
                 pageVars>>

NextFacade ==
  \/ \E r \in RepoIds : \E tags \in TagLists : SetCustomTags(r, tags)
  \/ \E r \in RepoIds : \E notes \in NoteInputs : SetNotes(r, notes)
  \/ \E i \in 1..MaxInflight : DeleteStep(i)
  \/ \E i \in 1..MaxInflight : InsertStep(i)
  \/ \E i \in 1..MaxInflight : SaveNotesStep(i)

SpecFacade == Init /\ [][NextFacade]_vars

\* ------------------------------------- SpecRoundTrip: export, then import
\* The values of an export document, tagged with their JavaScript type.
JsString(text) == [kind |-> "string", text |-> text]
JsArray(items) == [kind |-> "array", items |-> items]
JsObject(fields) == [kind |-> "object", fields |-> fields]
JsTagRow(row) == [kind |-> "row", repo_id |-> row.repo_id, tag |-> row.tag]
JsNoteRow(repoId, content) == [kind |-> "row", repo_id |-> repoId, content |-> content]

JsStrings(texts) == JsArray([i \in 1..Len(texts) |-> JsString(texts[i])])

\* The ids under which localStorage holds keys of a prefix, as texts.
IdsUnder(ls, prefix) ==
  {StripPrefix(key, prefix) : key \in {k \in DOMAIN ls : StartsWith(k, prefix)}}

\* customData.js getAllCustomData(): localStorage, whatever the backend.
LocalGetAllCustomData(ls) ==
  [tags |-> JsObject([id \in IdsUnder(ls, CUSTOM_TAGS_PREFIX) |->
                        JsStrings(JSONParse(ls[<<CUSTOM_TAGS_PREFIX>> \o id]))]),
   notes |-> JsObject([id \in IdsUnder(ls, NOTES_PREFIX) |->
                         JsString(ls[<<NOTES_PREFIX>> \o id])])]

\* The ids of the notes table, ascending.
RECURSIVE NoteIdsOrder(_)
NoteIdsOrder(ids) ==
  IF ids = {} THEN <<>>
  ELSE LET k == CHOOSE x \in ids : \A y \in ids : x <= y
       IN <<k>> \o NoteIdsOrder(ids \ {k})

\* supabase.js getAllCustomData(): the rows of the two tables, as arrays.
RemoteGetAllCustomData(rows, notes) ==
  LET ids == NoteIdsOrder(DOMAIN notes)
  IN [tags |-> JsArray([i \in 1..Len(rows) |-> JsTagRow(rows[i])]),
      notes |-> JsArray([i \in 1..Len(ids) |-> JsNoteRow(ids[i], notes[ids[i]])])]

\* Object.entries(value): of an array the index texts with the elements, of an
\* object its keys with their values.
ObjectEntries(value) ==
  IF value.kind = "array"
  THEN [i \in 1..Len(value.items) |->
          [key |-> NumToString(i - 1), value |-> value.items[i]]]
  ELSE LET keys == EntriesOrder(DOMAIN value.fields)
       IN [i \in 1..Len(keys) |-> [key |-> keys[i], value |-> value.fields[keys[i]]]]

\* An array whose elements are all strings.
IsStrings(value) ==
  value.kind = "array" /\ \A i \in 1..Len(value.items) : value.items[i].kind = "string"

TextsOf(value) == [i \in 1..Len(value.items) |-> value.items[i].text]

\* JSON.stringify(value): of an array of strings as above, of a string its
\* quoted text, of any other object its text in braces (abridged).
Stringify(value) ==
  IF IsStrings(value) THEN JSONStringify(TextsOf(value))
  ELSE IF value.kind = "string" THEN <<"\"">> \o value.text \o <<"\"">>
  ELSE <<"{", "}">>

\* setCustomTags(repoId, value) run alone to its end, no request failing.
\* Local: JSON.stringify of the value is stored. Remote: the rows are deleted;
\* value.length > 0 is false for a value that is not an array (undefined > 0),
\* and then nothing is inserted.
SetCustomTagsAlone(remote, store, repoId, value) ==
  IF remote
  THEN LET cleared == RemoteDeleteTags(store.tagRows, repoId)
       IN [store EXCEPT !.tagRows =
             IF IsStrings(value) /\ Len(value.items) > 0
             THEN RemoteInsert(cleared, RowsOf(repoId, TextsOf(value)))
             ELSE cleared]
  ELSE [store EXCEPT !.localStorage =
          SetItem(store.localStorage, KeyOf(CUSTOM_TAGS_PREFIX, repoId),
                  Stringify(value))]

\* setNotes(repoId, value) run alone to its end, no request failing. A value
\* that is not a string has no trim(): the TypeError is caught, in either
\* backend, and nothing is written.
SetNotesAlone(remote, store, repoId, value) ==
  IF remote
  THEN IF value.kind # "string" THEN store
       ELSE [store EXCEPT !.noteRows =
               IF IsBlank(value.text) THEN RemoteDeleteNotes(store.noteRows, repoId)
               ELSE RemoteUpsertNotes(store.noteRows, repoId, Trim(value.text))]
  ELSE IF value.kind # "string" THEN store
       ELSE [store EXCEPT !.localStorage =
               LocalSetNotes(store.localStorage, repoId, value.text)]

RECURSIVE ImportTagEntries(_, _, _)
ImportTagEntries(remote, store, entries) ==
  IF entries = <<>> THEN store
  ELSE ImportTagEntries(remote,
         SetCustomTagsAlone(remote, store, ParseInt(Head(entries).key),
                            Head(entries).value),
         Tail(entries))

RECURSIVE ImportNoteEntries(_, _, _)
ImportNoteEntries(remote, store, entries) ==
  IF entries = <<>> THEN store
  ELSE ImportNoteEntries(remote,
         SetNotesAlone(remote, store, ParseInt(Head(entries).key),
                       Head(entries).value),
         Tail(entries))

\* customData.js importCustomData(data) with all its writes done: the tag
\* entries, then the notes entries.
ImportAll(remote, store, data) ==
  ImportNoteEntries(remote,
    ImportTagEntries(remote, store, ObjectEntries(data.tags)),
    ObjectEntries(data.notes))

\* The repository ids an export document has data of.
IdsOf(remote, data) ==
  IF remote
  THEN {data.tags.items[i].repo_id : i \in 1..Len(data.tags.items)}
       \cup {data.notes.items[i].repo_id : i \in 1..Len(data.notes.items)}
  ELSE {ParseInt(k) : k \in DOMAIN data.tags.fields \cup DOMAIN data.notes.fields}

\* Export: the document the active backend's export writes to the file.
ExportStep ==
  /\ rt.pc = "idle"
  /\ LET data == IF useSupabase THEN RemoteGetAllCustomData(tagRows, noteRows)
                 ELSE LocalGetAllCustomData(localStorage)
     IN rt' = [rt EXCEPT !.pc = "exported", !.doc = data,
                         !.ids = IdsOf(useSupabase, data)]
  /\ UNCHANGED <<storeVars, cardVars, imported, noticeVars, filterVars, initVars,
                 pageVars>>

\* Import of the exported document into an empty store of the same backend.
ImportStep ==
  /\ rt.pc = "exported"
  /\ rt' = [rt EXCEPT !.pc = "imported",
                      !.store = ImportAll(useSupabase, EmptyStore, rt.doc)]
  /\ UNCHANGED <<storeVars, cardVars, imported, noticeVars, filterVars, initVars,
                 pageVars>>

\* The tag lists a store can hold: the local one what setCustomTags was given,
\* the remote one normalized rows, no tag twice.
StoredTagLists ==
  IF useSupabase
  THEN {l \in UNION {[1..k -> Tags] : k \in 0..MaxTags} :
          \A i, j \in 1..Len(l) : i # j => l[i] # l[j]}
  ELSE TagLists

\* The notes a store can hold: local any non-blank text, remote trimmed ones.
StoredNotes ==
  IF useSupabase THEN {Trim(n) : n \in NoteInputs} \ {<<>>}
  ELSE {n \in NoteInputs : ~IsBlank(n)}

\* The store holding the tag lists tagsOf and the notes notesOf (maps from
\* repository ids), written through the facade.
StoreHolding(tagsOf, notesOf) ==
  LET held == NoteIdsOrder(DOMAIN tagsOf)
  IN IF useSupabase
     THEN /\ localStorage = (<<DARK_MODE>> :> <<"d", "a", "r", "k">>)
          /\ tagRows = ImportTagEntries(TRUE, EmptyStore,
                         [i \in 1..Len(held) |->
                            [key |-> NumToString(held[i]),
                             value |-> JsStrings(tagsOf[held[i]])]]).tagRows
          /\ noteRows = notesOf
     ELSE /\ localStorage =
               [k \in {<<DARK_MODE>>}
                      \cup {KeyOf(CUSTOM_TAGS_PREFIX, r) : r \in DOMAIN tagsOf}
                      \cup {KeyOf(NOTES_PREFIX, r) : r \in DOMAIN notesOf} |->
                  IF k = <<DARK_MODE>> THEN <<"d", "a", "r", "k">>
                  ELSE IF StartsWith(k, CUSTOM_TAGS_PREFIX)
                       THEN JSONStringify(tagsOf[ParseInt(Tail(k))])
                       ELSE notesOf[ParseInt(Tail(k))]]
          /\ tagRows = <<>>
          /\ noteRows = EmptyFn

\* A store as the facade's writes leave it.
StoreFilled ==
  /\ useSupabase \in BOOLEAN
  /\ calls = <<>>
  /\ faults = 0
  /\ \E held \in SUBSET RepoIds : \E noted \in SUBSET RepoIds :
     \E tagsOf \in [held -> StoredTagLists] : \E notesOf \in [noted -> StoredNotes] :
       StoreHolding(tagsOf, notesOf)

\* A page whose store holds annotations, nothing loaded yet.
FilledPage == StoreFilled /\ CardInit /\ rt = NoRt /\ FilterIdle /\ InitIdle

InitFilled == FilledPage /\ PlainPage

NextRoundTrip == ExportStep \/ ImportStep

SpecRoundTrip == InitFilled /\ [][NextRoundTrip]_vars

\* The facade's reads on a store of the active backend.
GetCustomTagsOf(store, repoId) ==
  IF useSupabase THEN RemoteGetCustomTags(store.tagRows, repoId)
  ELSE LocalGetCustomTags(store.localStorage, repoId)

GetNotesOf(store, repoId) ==
  IF useSupabase THEN RemoteGetNotes(store.noteRows, repoId)
  ELSE LocalGetNotes(store.localStorage, repoId)

\* -------------------------------------------------------- claims C3, C4, C9
\* C3: once setNotes with an empty or whitespace-only text has returned, in
\* either backend, and no other notes write of that repository is in flight,
\* the store holds no notes entry for the id and getNotes returns ''.
C3_BlankNotesLeaveNoEntry ==
  (/\ lastDone.op = "setNotes" /\ IsBlank(lastDone.text)
   /\ ~NotesInFlight(lastDone.id)) =>
    /\ ~HasNotesEntry(lastDone.id)
    /\ GetNotes(lastDone.id) = <<>>

\* C4: the export document of a store, imported into an empty store of the
\* same backend, gives for every repository id of the export the tag list and
\* the notes the exporting store returns.
C4_RoundTripReproduces ==
  rt.pc = "imported" =>
    \A id \in rt.ids :
      /\ GetCustomTagsOf(rt.store, id) = GetCustomTags(id)
      /\ GetNotesOf(rt.store, id) = GetNotes(id)

\* C9: in every state of the store, every stored tag list holds trimmed
\* lowercase texts only and no tag twice.
C9_StoredTagsNormalized ==
  \A r \in RepoIds :
    LET stored == GetCustomTags(r)
    IN /\ \A i \in 1..Len(stored) : stored[i] = ToLowerCase(Trim(stored[i]))
       /\ \A i, j \in 1..Len(stored) : i # j => stored[i] # stored[j]

\* ------------------------------------------------- the filter / sort engine
MaxRepos == 3       \* longest repository list the engine is given

\* null, where a text is expected.
Null == <<"null">>

\* constants.js SORT_OPTIONS
STARS_DESC == "stars-desc"
STARS_ASC == "stars-asc"
NAME_ASC == "name-asc"
NAME_DESC == "name-desc"
UPDATED_DESC == "updated-desc"
UPDATED_ASC == "updated-asc"
SORT_OPTIONS == {STARS_DESC, STARS_ASC, NAME_ASC, NAME_DESC, UPDATED_DESC, UPDATED_ASC}

\* An enriched repository record.
Record(id, name, description, login, language, topics, customTags, stars, updated) ==
  [kind |-> "record", id |-> id, name |-> name, description |-> description,
   full_name |-> login \o <<"/">> \o name, owner |-> [login |-> login],
   language |-> language, topics |-> topics, custom_tags |-> customTags,
   notes |-> <<>>, stargazers_count |-> stars, updated_at |-> updated]

\* The records of the data file the model draws its lists from.
Catalog ==
  <<Record(1, <<"a", "b">>, Null, <<"x">>, "JS", <<<<"t">>>>, <<<<"a">>>>,
           10, <<2024, 1, 5>>),
    Record(2, <<"B">>, <<"A", "b">>, <<"y">>, "PY", <<<<"t">>, <<"u">>>>, <<>>,
           50, <<2023, 6, 1>>),
    Record(3, <<"b">>, <<>>, <<"x">>, "", <<>>, <<<<"a">>>>,
           5, <<2024, 1, 5>>),
    Record(4, <<"a">>, <<"b">>, <<"y">>, "JS", <<<<"u">>>>, <<>>,
           10, <<2022, 12, 31>>)>>

\* Lists of distinct records of the catalog.
EnrichedLists ==
  {[i \in 1..Len(ix) |-> Catalog[ix[i]]] :
     ix \in {s \in UNION {[1..k -> 1..Len(Catalog)] : k \in 0..MaxRepos} :
               \A i, j \in 1..Len(s) : i # j => s[i] # s[j]}}

\* index.js map(repo => mergeCustomData(repo)): a pending Promise, which has
\* none of the record's properties; value is what it resolves to.
PromiseOf(value) == [kind |-> "promise", value |-> value]

IsPromise(x) == x.kind = "promise"

\* The search step's test of one repository: name, description, full_name and
\* owner.login, lowercased, in this order, stopping at the first that contains
\* the search text. toLowerCase() of an undefined name or of a null
\* description is a TypeError.
SearchThrows(repo, search) ==
  \/ IsPromise(repo)
  \/ /\ ~StrIncludes(ToLowerCase(repo.name), search)
     /\ repo.description = Null

SearchKeeps(repo, search) ==
  \/ StrIncludes(ToLowerCase(repo.name), search)
  \/ StrIncludes(ToLowerCase(repo.description), search)
  \/ StrIncludes(ToLowerCase(repo.full_name), search)
  \/ StrIncludes(ToLowerCase(repo.owner.login), search)

\* repo.language === currentFilters.language
LanguageKeeps(repo, language) == ~IsPromise(repo) /\ repo.language = language

\* topics.every(topic => repo.topics && repo.topics.includes(topic))
TopicsKeep(repo, topics) ==
  \A i \in 1..Len(topics) : ~IsPromise(repo) /\ Includes(repo.topics, topics[i])

\* customTags.every(tag => repo.custom_tags && repo.custom_tags.includes(tag))
CustomTagsKeep(repo, customTags) ==
  \A i \in 1..Len(customTags) :
    ~IsPromise(repo) /\ Includes(repo.custom_tags, customTags[i])

\* new Date(updated_at): days on a calendar of 31-day months.
DateOf(d) == (d[1] * 12 + (d[2] - 1)) * 31 + (d[3] - 1)

\* localeCompare: letters in alphabetical order, lowercase before uppercase.
CharRank(c) == CASE c = "a" -> 1 [] c = "A" -> 2 [] c = "b" -> 3 [] c = "B" -> 4
                 [] OTHER -> 5

RECURSIVE LocaleCompare(_, _)
LocaleCompare(s, t) ==
  IF s = <<>> THEN (IF t = <<>> THEN 0 ELSE -1)
  ELSE IF t = <<>> THEN 1
  ELSE IF CharRank(Head(s)) # CharRank(Head(t))
       THEN CharRank(Head(s)) - CharRank(Head(t))
       ELSE LocaleCompare(Tail(s), Tail(t))

\* Mutant of StarsDescending: the operands exchanged (ascending).
StarsDescending_Ascending(a, b) == a.stargazers_count - b.stargazers_count

\* (a, b) => b.stargazers_count - a.stargazers_count
StarsDescending(a, b) == b.stargazers_count - a.stargazers_count

\* The comparator sortRepositories picks for a sort option; of two Promises
\* the number comparators give NaN, which sort() takes as 0.
Compare(sortOption, a, b) ==
  IF IsPromise(a) \/ IsPromise(b) THEN 0
  ELSE CASE sortOption = STARS_DESC -> StarsDescending(a, b)
         [] sortOption = STARS_ASC -> a.stargazers_count - b.stargazers_count
         [] sortOption = NAME_ASC -> LocaleCompare(a.name, b.name)
         [] sortOption = NAME_DESC -> LocaleCompare(b.name, a.name)
         [] sortOption = UPDATED_DESC -> DateOf(b.updated_at) - DateOf(a.updated_at)
         [] sortOption = UPDATED_ASC -> DateOf(a.updated_at) - DateOf(b.updated_at)
         [] OTHER -> StarsDescending(a, b)

\* Array.prototype.sort is stable: x goes behind the elements it does not
\* precede.
RECURSIVE InsertSorted(_, _, _)
InsertSorted(sorted, x, sortOption) ==
  IF sorted = <<>> THEN <<x>>
  ELSE IF Compare(sortOption, sorted[Len(sorted)], x) <= 0
       THEN Append(sorted, x)
       ELSE Append(InsertSorted(SubSeq(sorted, 1, Len(sorted) - 1), x, sortOption),
                   sorted[Len(sorted)])

RECURSIVE SortFrom(_, _, _)
SortFrom(sorted, rest, sortOption) ==
  IF rest = <<>> THEN sorted
  ELSE SortFrom(InsertSorted(sorted, Head(rest), sortOption), Tail(rest), sortOption)

\* filters.js sortRepositories(repos, sortOption): a sorted copy.
SortRepositories(list, sortOption) == SortFrom(<<>>, list, sortOption)

\* a.name.localeCompare of an undefined name is a TypeError.
SortThrows(list, sortOption) ==
  /\ sortOption \in {NAME_ASC, NAME_DESC}
  /\ Len(list) >= 2
  /\ \E i \in 1..Len(list) : IsPromise(list[i])

\* The four filter steps of applyFilters, the search step not throwing.
Filtered(all, f) ==
  LET bySearch == IF f.search # <<>>
                  THEN SelectSeq(all, LAMBDA repo : SearchKeeps(repo, f.search))
                  ELSE all
      byLanguage == IF f.language # ""
                    THEN SelectSeq(bySearch, LAMBDA repo : LanguageKeeps(repo, f.language))
                    ELSE bySearch
      byTopics == IF Len(f.topics) > 0
                  THEN SelectSeq(byLanguage, LAMBDA repo : TopicsKeep(repo, f.topics))
                  ELSE byLanguage
  IN IF Len(f.customTags) > 0
     THEN SelectSeq(byTopics, LAMBDA repo : CustomTagsKeep(repo, f.customTags))
     ELSE byTopics

\* filters.js applyFilters(): what it leaves on the page. A TypeError in the
\* search step or in the sort leaves the page as it was; renderRepositories
\* throws at the first card of a Promise (repo.owner is undefined), the grid
\* already emptied.
ApplyFilters(all, f, page) ==
  IF f.search # <<>> /\ \E i \in 1..Len(all) : SearchThrows(all[i], f.search)
  THEN [page EXCEPT !.status = "threw"]
  ELSE LET filtered == Filtered(all, f)
       IN IF SortThrows(filtered, f.sort)
          THEN [page EXCEPT !.status = "threw"]
          ELSE LET sorted == SortRepositories(filtered, f.sort)
               IN IF \E i \in 1..Len(sorted) : IsPromise(sorted[i])
                  THEN [status |-> "threw", filtered |-> filtered, list |-> <<>>]
                  ELSE [status |-> "ok", filtered |-> filtered, list |-> sorted]

\* ------------------------------------------ SpecFilter: the engine's handlers
\* What the user types into the search box.
SearchTexts == {<<>>, <<"A", " ">>, <<"x">>}

Topics == {<<"t">>, <<"u">>}

FilterTags == {<<"a">>}

\* String.prototype.split(','): the pieces between the commas.
RECURSIVE SplitFrom(_, _, _)
SplitFrom(text, cur, acc) ==
  IF text = <<>> THEN Append(acc, cur)
  ELSE IF Head(text) = "," THEN SplitFrom(Tail(text), <<>>, Append(acc, cur))
       ELSE SplitFrom(Tail(text), Append(cur, Head(text)), acc)

Split(text) == SplitFrom(text, <<>>, <<>>)

\* Query strings of the page URL: the parameters present, and their values.
URLParams ==
  {NoQuery,
   [has |-> {"search"}, search |-> <<"A">>, language |-> "", topic |-> <<>>,
    sort |-> ""],
   [has |-> {"search", "sort"}, search |-> <<"x">>, language |-> "",
    topic |-> <<>>, sort |-> "bogus"],
   [has |-> {"language", "topic"}, search |-> <<>>, language |-> "JS",
    topic |-> <<"t", ",", "u">>, sort |-> ""],
   [has |-> {"topic", "sort"}, search |-> <<>>, language |-> "",
    topic |-> <<"t">>, sort |-> NAME_ASC]}

\* filters.js initURLFilters(): the parameters present go into the filter
\* state as they are; nothing is recomputed.
URLFilters(f, params) ==
  [search |-> IF "search" \in params.has THEN params.search ELSE f.search,
   language |-> IF "language" \in params.has THEN params.language ELSE f.language,
   topics |-> IF "topic" \in params.has THEN Split(params.topic) ELSE f.topics,
   customTags |-> f.customTags,
   sort |-> IF "sort" \in params.has THEN params.sort ELSE f.sort]

\* filters.js initFilters(repositories): the list is kept, the listeners are
\* set up, the first recomputation runs.
InitFilters(repositories) ==
  /\ rendered.status = "none"
  /\ allRepositories' = repositories
  /\ rendered' = ApplyFilters(repositories, currentFilters, rendered)
  /\ UNCHANGED <<currentFilters, storeVars, cardVars, rt, imported, noticeVars,
                 initVars, pageVars>>

\* The filter state set to f, and applyFilters().
Recomputed(f) ==
  /\ rendered.status # "none"
  /\ currentFilters' = f
  /\ rendered' = ApplyFilters(allRepositories, f, rendered)
  /\ UNCHANGED <<allRepositories, storeVars, cardVars, rt, imported, noticeVars,
                 initVars, url, features>>

\* A handler that has set the filter state to f: applyFilters().
Recompute(f) == Recomputed(f) /\ UNCHANGED timerVars

\* The search box's input listener, its timer expired on the text typed.
SearchInput(text) ==
  Recompute([currentFilters EXCEPT !.search = Trim(ToLowerCase(text))])

\* The options of the language dropdown: none, and the languages of the list.
LanguageOptions ==
  {""} \cup {allRepositories[i].language :
               i \in {j \in 1..Len(allRepositories) : ~IsPromise(allRepositories[j])}}

LanguageChange(language) ==
  /\ language \in LanguageOptions
  /\ Recompute([currentFilters EXCEPT !.language = language])

SortChange(sort) == Recompute([currentFilters EXCEPT !.sort = sort])

\* The removeFilter listener: a chip of the active filters closed.
RemoveFilter(type, value) ==
  Recompute(CASE type = "search" -> [currentFilters EXCEPT !.search = <<>>]
              [] type = "language" -> [currentFilters EXCEPT !.language = ""]
              [] type = "topic" ->
                   [currentFilters EXCEPT !.topics = FilterOut(@, value)]
              [] type = "customTag" ->
                   [currentFilters EXCEPT !.customTags = FilterOut(@, value)])

\* The filterByTopic listener: a topic badge clicked.
FilterByTopic(topic) ==
  /\ ~Includes(currentFilters.topics, topic)
  /\ Recompute([currentFilters EXCEPT !.topics = Append(@, topic)])

\* The filterByCustomTag listener: a custom tag badge clicked.
FilterByCustomTag(customTag) ==
  /\ ~Includes(currentFilters.customTags, customTag)
  /\ Recompute([currentFilters EXCEPT !.customTags = Append(@, customTag)])

\* Filter objects a caller of updateFilters passes: the fields present, and
\* their values.
FilterPatches ==
  {[has |-> {"sort"},
    val |-> [DefaultFilters EXCEPT !.sort = "bogus"]],
   [has |-> {"search"},
    val |-> [DefaultFilters EXCEPT !.search = <<"A">>]],
   [has |-> {"language", "topics"},
    val |-> [DefaultFilters EXCEPT !.language = "JS", !.topics = <<<<"t">>>>]]}

\* filters.js updateFilters(filters): {...currentFilters, ...filters}
UpdateFilters(filters) ==
  Recompute([search |-> IF "search" \in filters.has THEN filters.val.search
                        ELSE currentFilters.search,
             language |-> IF "language" \in filters.has THEN filters.val.language
                          ELSE currentFilters.language,
             topics |-> IF "topics" \in filters.has THEN filters.val.topics
                        ELSE currentFilters.topics,
             customTags |-> IF "customTags" \in filters.has
                            THEN filters.val.customTags
                            ELSE currentFilters.customTags,
             sort |-> IF "sort" \in filters.has THEN filters.val.sort
                      ELSE currentFilters.sort])

\* filters.js clearFilters()
ClearFilters == Recompute(DefaultFilters)

NextFilter ==
  \/ \E repositories \in EnrichedLists : InitFilters(repositories)
  \/ \E text \in SearchTexts : SearchInput(text)
  \/ \E language \in {"", "JS", "PY"} : LanguageChange(language)
  \/ \E sort \in SORT_OPTIONS : SortChange(sort)
  \/ \E type \in {"search", "language"} : RemoveFilter(type, <<>>)
  \/ \E topic \in Topics : RemoveFilter("topic", topic)
  \/ \E customTag \in FilterTags : RemoveFilter("customTag", customTag)
  \/ \E topic \in Topics : FilterByTopic(topic)
  \/ \E customTag \in FilterTags : FilterByCustomTag(customTag)
  \/ \E filters \in FilterPatches : UpdateFilters(filters)
  \/ ClearFilters

\* The engine never calls the facade: the page of the build as shipped, whose
\* USE_SUPABASE flag is false, opened without a query string.
InitLocal == Init /\ ~useSupabase

SpecFilter == InitLocal /\ [][NextFilter]_vars

\* ------------------------------------------ SpecURL: the page URL's query
\* Array.prototype.join(',')
RECURSIVE Join(_)
Join(texts) ==
  IF texts = <<>> THEN <<>>
  ELSE IF Len(texts) = 1 THEN Head(texts)
  ELSE Head(texts) \o <<",">> \o Join(Tail(texts))

\* filters.js updateURL(): the query string it hands to replaceState, as its
\* parameters. No listener and no function of the page calls updateURL.
UpdateURLOf(f) ==
  LET hasSort == f.sort # "" /\ f.sort # STARS_DESC
  IN [has |-> (IF f.search # <<>> THEN {"search"} ELSE {})
              \cup (IF f.language # "" THEN {"language"} ELSE {})
              \cup (IF Len(f.topics) > 0 THEN {"topic"} ELSE {})
              \cup (IF hasSort THEN {"sort"} ELSE {}),
      search |-> f.search,
      language |-> f.language,
      topic |-> IF Len(f.topics) > 0 THEN Join(f.topics) ELSE <<>>,
      sort |-> IF hasSort THEN f.sort ELSE ""]

\* The page opened at any of the URLs, its list one repository at most.
InitURL ==
  /\ EmptyPage /\ ~useSupabase
  /\ url \in URLParams
  /\ TimersIdle
  /\ features = [USE_SUPABASE |-> FALSE]

\* index.js init(): initURLFilters(), then initFilters(repositories), the list
\* one of enriched records.
StartFilters(repositories) ==
  /\ rendered.status = "none"
  /\ currentFilters' = URLFilters(currentFilters, url)
  /\ allRepositories' = repositories
  /\ rendered' = ApplyFilters(repositories, currentFilters', rendered)
  /\ UNCHANGED <<storeVars, cardVars, rt, imported, noticeVars, initVars, pageVars>>

NextURL ==
  \/ \E repositories \in {list \in EnrichedLists : Len(list) <= 1} :
       StartFilters(repositories)
  \/ \E text \in SearchTexts : SearchInput(text)
  \/ \E language \in {"", "JS", "PY"} : LanguageChange(language)
  \/ \E sort \in SORT_OPTIONS : SortChange(sort)
  \/ \E topic \in Topics : FilterByTopic(topic)
  \/ \E topic \in Topics : RemoveFilter("topic", topic)
  \/ ClearFilters

SpecURL == InitURL /\ [][NextURL]_vars

\* --------------------------------------------------------- claims C5, C6, C8
\* A repository is in a list.
InList(list, repo) == \E i \in 1..Len(list) : list[i] = repo

\* One of the four searched fields, lowercased, contains the search text; a
\* null description contains nothing.
MatchesSearch(repo, search) ==
  \E field \in {repo.name, repo.description, repo.full_name, repo.owner.login} :
    field # Null /\ StrIncludes(ToLowerCase(field), search)

\* Every selected text is in the repository's list.
Superset(have, selected) == \A i \in 1..Len(selected) : Includes(have, selected[i])

\* C5: after every recomputation the repositories kept are exactly those of
\* the list that match each predicate: the search (unset: all), the language
\* (unset: all), the topics selected (a subset of the repository's) and the
\* custom tags selected (a subset of the repository's).
C5_FilteringIsConjunctive ==
  rendered.status # "none" =>
    /\ rendered.status = "ok"
    /\ \A i \in 1..Len(allRepositories) :
         LET repo == allRepositories[i]
         IN InList(rendered.list, repo) <=>
              /\ currentFilters.search = <<>> \/ MatchesSearch(repo, currentFilters.search)
              /\ currentFilters.language = "" \/ repo.language = currentFilters.language
              /\ Superset(repo.topics, currentFilters.topics)
              /\ Superset(repo.custom_tags, currentFilters.customTags)

\* C6: with a search text and no other filter, a recomputation keeps a
\* repository if and only if one of its name, description, full name and owner
\* login, lowercased, contains the text, the description being null or not.
C6_SearchMatchesAnyField ==
  (/\ rendered.status # "none"
   /\ currentFilters.search # <<>> /\ currentFilters.language = ""
   /\ currentFilters.topics = <<>> /\ currentFilters.customTags = <<>>) =>
    /\ rendered.status = "ok"
    /\ \A i \in 1..Len(allRepositories) :
         InList(rendered.list, allRepositories[i])
           <=> MatchesSearch(allRepositories[i], currentFilters.search)

\* The star counts of a list.
StarsOf(list) == [i \in 1..Len(list) |-> list[i].stargazers_count]

\* Every repository is as many times in the one list as in the other.
IsPermutation(out, in) ==
  /\ Len(out) = Len(in)
  /\ \A i \in 1..Len(in) :
       Cardinality({j \in 1..Len(out) : out[j] = in[i]})
         = Cardinality({j \in 1..Len(in) : in[j] = in[i]})

\* C8: with the sort key stars-desc, or a key that is none of the six, what
\* sortRepositories returns is a permutation of what it was given, in
\* non-increasing order of stars.
C8_StarsDescendingByDefault ==
  (rendered.status = "ok" /\ currentFilters.sort \notin SORT_OPTIONS \ {STARS_DESC}) =>
    /\ IsPermutation(rendered.list, rendered.filtered)
    /\ \A i, j \in 1..Len(rendered.list) :
         i < j => rendered.list[i].stargazers_count >= rendered.list[j].stargazers_count

\* Reached: stars [10, 50, 5] sorted under an unknown key into [50, 10, 5].
C8_Witness ==
  /\ rendered.status = "ok"
  /\ currentFilters.sort \notin SORT_OPTIONS
  /\ StarsOf(rendered.filtered) = <<10, 50, 5>>
  /\ StarsOf(rendered.list) = <<50, 10, 5>>

\* ------------------------------------------------------ SpecInit: start-up
USERNAME == "nicolasbagatello"

\* A record of the data file: it has no custom_tags and no notes.
Loaded(record) == [f \in DOMAIN record \ {"custom_tags", "notes"} |-> record[f]]

LoadedLists == {[i \in 1..Len(list) |-> Loaded(list[i])] : list \in EnrichedLists}

\* What data.metadata can be: undefined, null, an object, or a value that is
\* neither (here a non-empty string).
MetadataKinds == {"absent", "null", "object", "string"}

\* What the fetch of the data file can give: a rejection (fetched FALSE), or a
\* response whose status is ok or not and whose body is not JSON, the JSON
\* value null, or a document; a document's repositories is an array or not.
Responses ==
  {[fetched |-> TRUE, ok |-> TRUE, body |-> "document", metadata |-> m,
    isArray |-> TRUE, repositories |-> list] :
     m \in MetadataKinds, list \in LoadedLists}
  \cup {[fetched |-> TRUE, ok |-> TRUE, body |-> "document", metadata |-> m,
          isArray |-> FALSE, repositories |-> <<>>] : m \in MetadataKinds}
  \cup {[fetched |-> f, ok |-> o, body |-> b, metadata |-> "object",
          isArray |-> TRUE, repositories |-> list] :
           f \in BOOLEAN, o \in BOOLEAN, b \in {"notjson", "null", "document"},
           list \in {l \in LoadedLists : Len(l) = 1}}

\* The value of data.metadata in the document of a response.
MetadataOf(resp) ==
  CASE resp.metadata = "object" ->
         [kind |-> "object", lastUpdated |-> <<"2", "0", "2", "4">>,
          username |-> USERNAME, totalStars |-> Len(resp.repositories),
          version |-> "1.0"]
    [] resp.metadata = "string" -> [kind |-> "string", text |-> <<"x">>]
    [] OTHER -> [kind |-> resp.metadata]

\* What response.json() resolves to for a document whose repositories is an
\* array.
DataOf(resp) == [metadata |-> MetadataOf(resp), repositories |-> resp.repositories]

\* !data.metadata: undefined and null are falsy, an object and a non-empty
\* string are not.
Falsy(value) == value.kind \in {"absent", "null"}

\* The empty structure of the catch block.
EmptyStarsData ==
  [metadata |-> [kind |-> "object", lastUpdated |-> Null, username |-> USERNAME,
                 totalStars |-> 0, version |-> "1.0"],
   repositories |-> <<>>]

\* storage.js loadStarsData(): the whole body is in the try block. fetch
\* rejecting, a status that is not ok, response.json() rejecting, data.metadata
\* of null (a TypeError) and the two validation tests all end in the catch
\* block, which returns the empty structure; otherwise data is returned.
LoadStarsDataOf(resp) ==
  IF ~resp.fetched \/ ~resp.ok \/ resp.body # "document" THEN EmptyStarsData
  ELSE IF Falsy(MetadataOf(resp)) \/ ~resp.isArray THEN EmptyStarsData
  ELSE DataOf(resp)

\* index.js init(), up to the end of await loadStarsData().
LoadStarsData(resp) ==
  /\ initPc = "idle"
  /\ response' = resp
  /\ starsData' = LoadStarsDataOf(resp)
  /\ initPc' = "loaded"
  /\ UNCHANGED <<storeVars, cardVars, rt, imported, noticeVars, filterVars,
                 pageVars>>

\* customData.js mergeCustomData(repo), resolved: {...repo, custom_tags, notes}
MergeCustomData(repo) ==
  [f \in DOMAIN repo \cup {"custom_tags", "notes"} |->
     IF f = "custom_tags" THEN GetCustomTags(repo.id)
     ELSE IF f = "notes" THEN GetNotes(repo.id)
     ELSE repo[f]]

\* index.js init(), the rest of it, which runs without a pause: the records are
\* mapped through mergeCustomData, an async function whose Promises are not
\* awaited; the URL parameters are read; initFilters is given the array of
\* Promises. What applyFilters throws is caught by init.
InitAfterLoad ==
  /\ initPc = "loaded"
  /\ LET repositoriesWithCustomData ==
           [i \in 1..Len(starsData.repositories) |->
              PromiseOf(MergeCustomData(starsData.repositories[i]))]
         filters == URLFilters(currentFilters, url)
         page == ApplyFilters(repositoriesWithCustomData, filters, rendered)
     IN /\ currentFilters' = filters
        /\ allRepositories' = repositoriesWithCustomData
        /\ rendered' = page
        /\ initPc' = IF page.status = "threw" THEN "failed" ELSE "done"
        /\ toast' = IF page.status = "threw"
                    THEN "Failed to load repository data. Please refresh the page."
                    ELSE IF Len(repositoriesWithCustomData) > 0
                         THEN "Loaded starred repositories"
                         ELSE "No repositories found. Run the sync workflow to fetch your stars."
  /\ UNCHANGED <<storeVars, cardVars, rt, imported, consoleLog, starsData, response,
                 pageVars>>

NextInit ==
  \/ \E resp \in Responses : LoadStarsData(resp)
  \/ InitAfterLoad

\* A page whose store holds annotations, opened at any of the URLs.
InitOpened ==
  /\ FilledPage
  /\ url \in URLParams
  /\ TimersIdle
  /\ features = [USE_SUPABASE |-> useSupabase]

SpecInit == InitOpened /\ [][NextInit]_vars

\* --------------------------------------------------------------- claim C10
\* C10: when init has finished, every element of the list initFilters was
\* given is an enriched record: the loaded record of the same place, with the
\* custom_tags and the notes the facade returns for its id.
C10_EngineHoldsEnrichedRecords ==
  initPc \in {"done", "failed"} =>
    /\ Len(allRepositories) = Len(starsData.repositories)
    /\ \A i \in 1..Len(allRepositories) :
         /\ ~IsPromise(allRepositories[i])
         /\ allRepositories[i] = MergeCustomData(starsData.repositories[i])


\* --------------------------------------------------------------- claim C11
\* The fetch gave a document with a metadata object and a repositories array.
WellFormed(resp) ==
  /\ resp.fetched /\ resp.ok /\ resp.body = "document"
  /\ resp.metadata = "object" /\ resp.isArray

\* C11: loadStarsData has returned (it never throws); when the fetch failed,
\* the status was not ok, the body was not JSON, or the document lacks a
\* metadata object or a repositories array, it returned an empty repository
\* list with metadata whose timestamp is null; otherwise the fetched document.
C11_LoadFallsBackOrReturnsDocument ==
  initPc # "idle" =>
    IF WellFormed(response)
    THEN starsData = DataOf(response)
    ELSE /\ starsData.repositories = <<>>
         /\ starsData.metadata.kind = "object"
         /\ starsData.metadata.lastUpdated = Null


\* --------------------------------------------------------------- claim C19
\* C19: once the engine has recomputed (at start-up and after every change of
\* the filter state), the page URL's parameters search, language, topic and
\* sort are those that encode the current filter state.
C19_URLEncodesFilterState ==
  rendered.status # "none" => url = UpdateURLOf(currentFilters)


\* ------------------------------------- SpecImport: import and clear-all
\* A repository that no import document names, and what the store holds of it.
OtherId == NumRepos + 1
AllIds == RepoIds \cup {OtherId}
OtherTags == <<<<"a">>>>
OtherNotes == <<"a">>

\* undefined and null, as values of a payload.
Absent == [kind |-> "absent"]
JsNull == [kind |-> "null"]

\* Payloads that do not have the export shape: null; no tags; no notes; a
\* tags value that is a text, not a list; a notes value that is a list, not a
\* text.
Malformed ==
  {JsNull,
   [kind |-> "object", tags |-> Absent, notes |-> JsObject(EmptyFn)],
   [kind |-> "object", tags |-> JsObject(<<"1">> :> JsStrings(<<<<"a">>>>)),
    notes |-> Absent],
   [kind |-> "object", tags |-> JsObject(<<"1">> :> JsString(<<"a">>)),
    notes |-> JsObject(EmptyFn)],
   [kind |-> "object", tags |-> JsObject(<<"1">> :> JsStrings(<<<<"a", "a">>>>)),
    notes |-> JsObject(<<"1">> :> JsStrings(<<<<"a">>>>))]}

\* customData.js importCustomData(data), its writes run to their end: data.tags
\* of null is a TypeError, which the catch turns into false, as it does the
\* Error thrown for a falsy data.tags or data.notes; the values of the entries
\* are not looked at, and true is returned whatever the writes return.
ImportCustomDataOf(remote, store, data) ==
  IF data.kind = "null" \/ Falsy(data.tags) \/ Falsy(data.notes)
  THEN [ret |-> FALSE, store |-> store]
  ELSE [ret |-> TRUE, store |-> ImportAll(remote, store, data)]

\* importCustomData(payload) of a payload that has not the export shape, no
\* other call in flight.
ImportPayload(payload) ==
  /\ imported.n < MaxImports
  /\ calls = <<>>
  /\ LET out == ImportCustomDataOf(useSupabase, StoreNow, payload)
     IN /\ localStorage' = out.store.localStorage
        /\ tagRows' = out.store.tagRows
        /\ noteRows' = out.store.noteRows
        /\ imported' = [pc |-> "returned", n |-> imported.n + 1, ret |-> out.ret,
                        shaped |-> FALSE, idle |-> TRUE, tagIds |-> {},
                        noteIds |-> {}, store |-> StoreNow]
  /\ UNCHANGED <<useSupabase, calls, faults, cardVars, rt, noticeVars, filterVars,
                 initVars, pageVars>>

\* The keys clearAllCustomData collects and removes: those of the two prefixes.
LocalClearAll(ls) ==
  [k \in {key \in DOMAIN ls : /\ ~StartsWith(key, CUSTOM_TAGS_PREFIX)
                               /\ ~StartsWith(key, NOTES_PREFIX)} |-> ls[k]]

\* customData.js clearAllCustomData(): it scans localStorage, whatever the
\* backend, and returns true.
ClearAllCustomData ==
  /\ localStorage' = LocalClearAll(localStorage)
  /\ imported' = [imported EXCEPT !.pc = "cleared", !.idle = calls = <<>>]
  /\ lastDone' = [NoDone EXCEPT !.op = "clearAllCustomData", !.ret = TRUE]
  /\ UNCHANGED <<useSupabase, tagRows, noteRows, calls, faults, repos, synced,
                 lastOp, rt, noticeVars, filterVars, initVars, pageVars>>

\* ------------------------------------------------- getAllUniqueTags, a read
\* What JSON.parse makes of a stored text: an array, a string, an object, or
\* nothing (a SyntaxError).
JSONKind(text) ==
  IF text = <<>> THEN "none"
  ELSE CASE Head(text) = "[" -> "array"
         [] Head(text) = "\"" -> "string"
         [] Head(text) = "{" -> "object"
         [] OTHER -> "none"

\* The UTF-16 code unit of a character, by which Array.prototype.sort orders.
CodeUnit(c) == CASE c = " " -> 32 [] c = "A" -> 65 [] c = "a" -> 97 [] OTHER -> 128

RECURSIVE TextBefore(_, _)
TextBefore(s, t) ==
  IF t = <<>> THEN FALSE
  ELSE IF s = <<>> THEN TRUE
  ELSE IF Head(s) = Head(t) THEN TextBefore(Tail(s), Tail(t))
  ELSE CodeUnit(Head(s)) < CodeUnit(Head(t))

\* Array.from(set).sort()
RECURSIVE SortTexts(_)
SortTexts(set) ==
  IF set = {} THEN <<>>
  ELSE LET first == CHOOSE x \in set : \A y \in set \ {x} : TextBefore(x, y)
       IN <<first>> \o SortTexts(set \ {first})

ItemsOf(list) == {list[i] : i \in 1..Len(list)}

\* customData.js getAllUniqueTags(), localStorage: no try around the loop, so
\* the SyntaxError of JSON.parse and the TypeError of repoTags.forEach on a
\* value that is not an array reject the promise the async function returns.
LocalGetAllUniqueTags(ls) ==
  LET keys == {k \in DOMAIN ls : StartsWith(k, CUSTOM_TAGS_PREFIX)}
  IN IF \E k \in keys : JSONKind(ls[k]) # "array"
     THEN [threw |-> TRUE, value |-> <<>>]
     ELSE [threw |-> FALSE,
           value |-> SortTexts(UNION {ItemsOf(JSONParse(ls[k])) : k \in keys})]

\* supabase.js getAllUniqueTags(): the distinct tags in order, [] on an error.
RemoteGetAllUniqueTags(rows, ok) ==
  IF ok THEN SortTexts({rows[i].tag : i \in 1..Len(rows)}) ELSE <<>>

\* getAllUniqueTags() on the active backend; a remote request may fail.
GetAllUniqueTags ==
  \E ok \in BOOLEAN :
    /\ ~ok => useSupabase /\ faults < MaxFaults
    /\ faults' = IF ok THEN faults ELSE faults + 1
    /\ LET out == IF useSupabase
                  THEN [threw |-> FALSE, value |-> RemoteGetAllUniqueTags(tagRows, ok)]
                  ELSE LocalGetAllUniqueTags(localStorage)
       IN lastDone' = [NoDone EXCEPT !.op = "getAllUniqueTags", !.threw = out.threw,
                                     !.failed = ~ok, !.value = out.value]
    /\ UNCHANGED <<useSupabase, localStorage, tagRows, noteRows, calls, repos, synced,
                   lastOp, rt, imported, noticeVars, filterVars, initVars, pageVars>>

\* A store as the facade's writes leave it, holding tags and notes of OtherId.
StoreWithOther ==
  /\ useSupabase \in BOOLEAN
  /\ calls = <<>>
  /\ faults = 0
  /\ \E held \in SUBSET RepoIds : \E noted \in SUBSET RepoIds :
     \E tagsOf \in [held -> StoredTagLists] : \E notesOf \in [noted -> StoredNotes] :
       StoreHolding(tagsOf @@ (OtherId :> OtherTags), notesOf @@ (OtherId :> OtherNotes))

InitImport ==
  StoreWithOther /\ CardInit /\ rt = NoRt /\ FilterIdle /\ InitIdle /\ PlainPage

NextImport ==
  \/ \E data \in ImportDocs : ImportCustomData(data)
  \/ \E payload \in Malformed : ImportPayload(payload)
  \/ ClearAllCustomData
  \/ GetAllUniqueTags
  \/ \E i \in 1..MaxInflight : DeleteStep(i)
  \/ \E i \in 1..MaxInflight : InsertStep(i)
  \/ \E i \in 1..MaxInflight : SaveNotesStep(i)

SpecImport == InitImport /\ [][NextImport]_vars

\* ---------------------------------------------------- claims C12, C13, C18
\* C12: after importCustomData of a document of the export shape (no write in
\* flight when it was called), every repository id has the tags it had before
\* unless the document's tags name it, and the notes it had before unless the
\* document's notes name it.
C12_ImportLeavesOtherIds ==
  (imported.pc = "returned" /\ imported.shaped /\ imported.idle) =>
    \A id \in AllIds :
      /\ id \notin imported.tagIds =>
           GetCustomTags(id) = GetCustomTagsOf(imported.store, id)
      /\ id \notin imported.noteIds =>
           GetNotes(id) = GetNotesOf(imported.store, id)

\* Reached: a remote import whose writes are done has changed the tags of the
\* repository it names, and the other repository has its tags and notes.
C12_Witness ==
  /\ imported.pc = "returned" /\ imported.shaped /\ imported.idle
  /\ useSupabase /\ calls = <<>>
  /\ imported.tagIds = {1} /\ imported.noteIds = {}
  /\ GetCustomTags(1) # GetCustomTagsOf(imported.store, 1)
  /\ GetNotes(1) = GetNotesOf(imported.store, 1) /\ GetNotes(1) # <<>>
  /\ GetCustomTags(OtherId) = OtherTags
  /\ GetNotes(OtherId) = OtherNotes

\* C13: importCustomData of a payload that has not the export shape returns
\* false and leaves the store as it found it.
C13_MalformedImportRejected ==
  (imported.pc = "returned" /\ ~imported.shaped) =>
    /\ ~imported.ret
    /\ StoreNow = imported.store

\* C18: after clearAllCustomData (no write in flight when it was called),
\* getCustomTags returns [] and getNotes returns '' for every repository id, in
\* the backend that is active.
C18_ClearAllEmptiesActiveBackend ==
  (imported.pc = "cleared" /\ imported.idle) =>
    \A id \in AllIds : GetCustomTags(id) = <<>> /\ GetNotes(id) = <<>>


\* ------------------------------------------------------------- claim C14
\* C14: no facade call throws or rejects, and a read whose backend request
\* failed resolves to the empty list.
C14_NoFacadeCallThrows ==
  /\ ~lastDone.threw
  /\ lastDone.failed => lastDone.value = <<>>

\* ------------------------------------------------------------- claim C15
\* The key a local write of the last call went to.
KeyOfDone ==
  KeyOf(IF lastDone.op = "setNotes" THEN NOTES_PREFIX ELSE CUSTOM_TAGS_PREFIX,
        lastDone.id)

\* C15: after a local setCustomTags or setNotes that the quota refused, the
\* call has returned false, the key holds what it held before the call, and
\* the capacity warning is on the page for the user.
C15_QuotaFailureWarnsUser ==
  (~useSupabase /\ lastDone.op \in {"setCustomTags", "setNotes"} /\ ~lastDone.ret) =>
    /\ GetItem(localStorage, KeyOfDone) = lastDone.before
    /\ toast = STORAGE_QUOTA_EXCEEDED


\* ------------------------------------- SpecCard: tags and notes on a card
\* cards.js: the callback of the notes field's timeout. The text goes to the
\* facade (not awaited), the record is updated, the toast shown.
NotesSave(r, value) ==
  /\ FacadeSetNotes(r, value)
  /\ repos' = [repos EXCEPT ![r].notes = value]
  /\ toast' = "Notes saved"
  /\ lastOp' = [NoOp EXCEPT !.op = "notes", !.id = r, !.text = value]
  /\ UNCHANGED <<useSupabase, synced, rt, imported, filterVars, initVars, url,
                 features>>

\* cards.js: the notes input's handler, its debounce timer run out on the
\* text value.
NotesInput(r, value) == NotesSave(r, value) /\ UNCHANGED timerVars

NextCard ==
  \/ \E r \in RepoIds : \E input \in TagInputs : AddTag(r, input)
  \/ \E r \in RepoIds : \E tag \in Tags : RemoveTag(r, tag)
  \/ \E r \in RepoIds : \E value \in NoteInputs : NotesInput(r, value)
  \/ \E i \in 1..MaxInflight : DeleteStep(i)
  \/ \E i \in 1..MaxInflight : InsertStep(i)
  \/ \E i \in 1..MaxInflight : SaveNotesStep(i)

SpecCard == Init /\ [][NextCard]_vars

\* ------------------------------------------------------------- claim C16
SuccessToasts == {"Tag added", "Tag removed", "Notes saved"}

\* C16: while a success toast of an edit is shown, the facade write of that
\* edit has returned, and returned true.
C16_SuccessToastAfterWrite ==
  toast \in SuccessToasts =>
    /\ lastDone.op \in {"setCustomTags", "setNotes"}
    /\ lastDone.id = lastOp.id
    /\ lastDone.ret


\* ------------------------------------- SpecStartup: the build's flag at init
\* The module is loaded (customData.js: let useSupabase = false) in a build
\* whose constants.js has either value of FEATURES.USE_SUPABASE, and init runs.
\* init reads no flag and calls neither initSupabase nor initCustomData.
InitStartup ==
  /\ FilledPage
  /\ ~useSupabase
  /\ url \in URLParams
  /\ TimersIdle
  /\ features \in [USE_SUPABASE : BOOLEAN]

SpecStartup == InitStartup /\ [][NextInit]_vars

\* ------------------------------------------------------------- claim C17
\* C17: once init has run, the facade's backend mode is the value of the
\* USE_SUPABASE flag.
C17_ModeFollowsFlag ==
  initPc \in {"done", "failed"} => useSupabase = features.USE_SUPABASE


\* ------------------------------------------------------------- claim C20
\* C20: in the remote backend, when setCustomTags(repoId, tags) has returned
\* true, no other write of the repository having been in flight while it ran
\* and none being in flight now, the rows of repoId are the trimmed, lowercased
\* tags of the argument, in their order.
C20_RemoteSetReplacesRows ==
  (/\ useSupabase
   /\ lastDone.op = "setCustomTags" /\ lastDone.ret /\ lastDone.alone
   /\ ~WriteInFlight(lastDone.id)) =>
    GetCustomTags(lastDone.id) =
      [i \in 1..Len(lastDone.tags) |-> ToLowerCase(Trim(lastDone.tags[i]))]


InitRemote == Init /\ useSupabase

NextRemote ==
  \/ \E r \in RepoIds : \E tags \in TagLists : SetCustomTags(r, tags)
  \/ \E r \in RepoIds : \E tag \in RawTags : AddCustomTag(r, tag)
  \/ \E i \in 1..MaxInflight : DeleteStep(i)
  \/ \E i \in 1..MaxInflight : InsertStep(i)

SpecRemote == InitRemote /\ [][NextRemote]_vars

\* ------------------------------------------------------------- claim C22
\* C22: a remote call (addCustomTag or setCustomTags) whose insert the
\* uniqueness constraint rejected returns true, and the insert has left the
\* stored rows as they were.
C22_DuplicateInsertIsSuccess ==
  [][(lastDone' # lastDone /\ lastDone'.duplicate) =>
       (lastDone'.ret /\ tagRows' = tagRows)]_vars


\* ------------------------------------------------------------- claim C23
\* trim().toLowerCase() of every tag of a list.
Normalized(tags) == [i \in 1..Len(tags) |-> Trim(ToLowerCase(tags[i]))]

\* C23: in the remote backend with no request failing, when the call that
\* ended last is a setCustomTags that returned true, overlapped another write
\* of the repository's tags, and no write of them is in flight any more, the
\* stored tags are the tags of that call; when it is a setNotes that returned
\* true and no notes write of the repository is in flight, the stored notes
\* are the trimmed text of that call.
C23_LastCompletedWriteWins ==
  (useSupabase /\ faults = 0) =>
    /\ (/\ lastDone.op = "setCustomTags" /\ lastDone.ret /\ ~lastDone.alone
        /\ ~WriteInFlight(lastDone.id)) =>
         GetCustomTags(lastDone.id) = Normalized(lastDone.tags)
    /\ (lastDone.op = "setNotes" /\ lastDone.ret /\ ~NotesInFlight(lastDone.id)) =>
         GetNotes(lastDone.id) = Trim(lastDone.text)


\* ------------------------------- SpecEdit: card edits on the filtered page
\* The lists given to the engine here: at most two records, the record of
\* repository 1 among them.
EditLists ==
  {list \in EnrichedLists :
     Len(list) <= 2 /\ \E i \in 1..Len(list) : list[i].id \in RepoIds}

\* repo.custom_tags = tags, of the one repository object that the engine's
\* list, the filtered list and the card all refer to.
SetRecordTags(list, id, tags) ==
  [i \in 1..Len(list) |->
     IF list[i].id = id THEN [list[i] EXCEPT !.custom_tags = tags] ELSE list[i]]

\* The custom tags the card of repository id shows; the card is on the page.
CardOnPage(id) == \E i \in 1..Len(rendered.list) : rendered.list[i].id = id

CardTags(id) ==
  LET i == CHOOSE j \in 1..Len(allRepositories) : allRepositories[j].id = id
  IN allRepositories[i].custom_tags

\* What an edit of the card's tags leaves: the facade is called, the object is
\* updated, the card's tag elements are updated; applyFilters is not called.
EditTags(id, updatedTags, message) ==
  /\ FacadeSetCustomTags(id, updatedTags)
  /\ allRepositories' = SetRecordTags(allRepositories, id, updatedTags)
  /\ rendered' = [rendered EXCEPT
                    !.filtered = SetRecordTags(@, id, updatedTags),
                    !.list = SetRecordTags(@, id, updatedTags)]
  /\ toast' = message
  /\ UNCHANGED <<useSupabase, repos, lastOp, currentFilters>>

\* cards.js: the tag input's keydown handler, on a card of the rendered page.
PageAddTag(id, input) ==
  /\ rendered.status = "ok" /\ CardOnPage(id)
  /\ Trim(input) # <<>>
  /\ LET newTag == NewTagOf(input)
     IN IF Includes(CardTags(id), newTag)
        THEN /\ toast' = "Tag already exists"
             /\ UNCHANGED <<storeVars, cardVars, consoleLog, filterVars>>
        ELSE /\ Len(CardTags(id)) < MaxTags
             /\ EditTags(id, Append(CardTags(id), newTag), "Tag added")
  /\ UNCHANGED <<rt, imported, initVars, pageVars>>

\* cards.js removeTag(repo, tag, element), from the remove button of a tag the
\* card shows.
PageRemoveTag(id, tag) ==
  /\ rendered.status = "ok" /\ CardOnPage(id)
  /\ Includes(CardTags(id), tag)
  /\ EditTags(id, FilterOut(CardTags(id), tag), "Tag removed")
  /\ UNCHANGED <<rt, imported, initVars, pageVars>>

\* The page of the local backend, the store holding the tags of the catalog's
\* record of repository 1.
InitEdit ==
  /\ useSupabase = FALSE /\ calls = <<>> /\ faults = 0
  /\ StoreHolding(1 :> Catalog[1].custom_tags, EmptyFn)
  /\ CardInit /\ rt = NoRt /\ FilterIdle /\ InitIdle /\ PlainPage

NextEdit ==
  \/ \E repositories \in EditLists : InitFilters(repositories)
  \/ \E customTag \in Tags : FilterByCustomTag(customTag)
  \/ \E customTag \in Tags : RemoveFilter("customTag", customTag)
  \/ \E sort \in {STARS_DESC, STARS_ASC} : SortChange(sort)
  \/ \E id \in RepoIds : \E input \in TagInputs : PageAddTag(id, input)
  \/ \E id \in RepoIds : \E tag \in Tags : PageRemoveTag(id, tag)

SpecEdit == InitEdit /\ [][NextEdit]_vars

\* ------------------------------------------------------------- claim C24
\* C24: the rendered list is the recomputation of the engine's list under the
\* current filter state.
C24_RenderedIsRecomputation ==
  rendered.status = "ok" =>
    rendered.list = ApplyFilters(allRepositories, currentFilters, rendered).list


\* ------------------------------------------------------------- claim C25
\* C25: the search string of the filter state is lowercase and trimmed.
C25_SearchIsNormalized ==
  currentFilters.search = Trim(ToLowerCase(currentFilters.search))


\* ------------------------------ SpecDebounce: the fields and their timeouts
MaxBurst == 3       \* input events of one burst that the history counts

\* No timeout whose delay has run out is waiting: the event loop is idle, and
\* such a timeout runs before the next event is handled or time passes.
NoneExpired ==
  /\ Expired(timers.search) = {}
  /\ \A r \in RepoIds : Expired(timers.notes[r]) = {}

\* filters.js setupSearchInput: an input event of the search box.
SearchKey(text) ==
  /\ rendered.status # "none"
  /\ NoneExpired
  /\ HasFreeHandle(timers.search)
  /\ timers' = [timers EXCEPT !.search = KeyIn(@, text, SEARCH_DEBOUNCE_MS)]
  /\ bursts' = [bursts EXCEPT !.search = KeyInBurst(@, text, MaxBurst)]
  /\ UNCHANGED <<storeVars, cardVars, rt, imported, noticeVars, filterVars, initVars,
                 url, features>>

\* filters.js setupSearchInput: the callback of a timeout, which reads the
\* text of the box when it runs.
SearchTimeout(h) ==
  /\ h \in Expired(timers.search)
  /\ Recomputed([currentFilters EXCEPT
                   !.search = Trim(ToLowerCase(timers.search.value))])
  /\ timers' = [timers EXCEPT !.search.pending = ClearTimeout(@, h)]
  /\ bursts' = [bursts EXCEPT !.search = RunBurst(@, timers.search.value)]

\* cards.js: an input event of the notes field of the card of r.
NotesKey(r, text) ==
  /\ NoneExpired
  /\ HasFreeHandle(timers.notes[r])
  /\ timers' = [timers EXCEPT !.notes[r] = KeyIn(@, text, NOTES_DEBOUNCE_MS)]
  /\ bursts' = [bursts EXCEPT !.notes[r] = KeyInBurst(@, text, MaxBurst)]
  /\ UNCHANGED <<storeVars, cardVars, rt, imported, noticeVars, filterVars, initVars,
                 url, features>>

\* cards.js: the callback of a timeout of the notes field, which reads the
\* text of the field when it runs.
NotesTimeout(r, h) ==
  /\ h \in Expired(timers.notes[r])
  /\ NotesSave(r, timers.notes[r].value)
  /\ timers' = [timers EXCEPT !.notes[r].pending = ClearTimeout(@, h)]
  /\ bursts' = [bursts EXCEPT !.notes[r] = RunBurst(@, timers.notes[r].value)]

\* TickMs pass, no timeout being due.
Tick ==
  /\ NoneExpired
  /\ \/ DOMAIN timers.search.pending # {}
     \/ \E r \in RepoIds : DOMAIN timers.notes[r].pending # {}
  /\ timers' = [search |-> Later(timers.search),
                notes |-> [r \in RepoIds |-> Later(timers.notes[r])]]
  /\ bursts' = [search |-> LaterBurst(bursts.search, SEARCH_DEBOUNCE_MS),
                notes |-> [r \in RepoIds |->
                             LaterBurst(bursts.notes[r], NOTES_DEBOUNCE_MS)]]
  /\ UNCHANGED <<storeVars, cardVars, rt, imported, noticeVars, filterVars, initVars,
                 url, features>>

NextDebounce ==
  \/ \E repositories \in {list \in EnrichedLists : Len(list) <= 1} :
       InitFilters(repositories)
  \/ \E text \in SearchTexts : SearchKey(text)
  \/ \E h \in 1..MaxTimers : SearchTimeout(h)
  \/ Tick

SpecDebounce == InitLocal /\ [][NextDebounce]_vars

\* The notes fields of the cards, with their own timeouts.
NextAutoSave ==
  \/ \E r \in RepoIds : \E text \in NoteInputs : NotesKey(r, text)
  \/ \E r \in RepoIds : \E h \in 1..MaxTimers : NotesTimeout(r, h)
  \/ Tick

SpecAutoSave == InitLocal /\ [][NextAutoSave]_vars

\* ------------------------------------------------------- claims C26, C27
\* C26: of the search box's input events since the last one that followed a
\* recomputation (each came before the timeout of the one before was due), at
\* most one recomputation has run; it ran 300 ms after the last event, on the
\* text of the last event; while none has run, exactly one timeout is pending,
\* due 300 ms after the last event.
C26_SearchBurstRunsOnce ==
  LET b == bursts.search
  IN /\ b.runs <= 1
     /\ b.runs = 1 => /\ b.ranAt = SEARCH_DEBOUNCE_MS
                      /\ b.ranWith = b.last
                      /\ currentFilters.search = Trim(ToLowerCase(b.last))
                      /\ timers.search.pending = EmptyFn
     /\ (b.events > 0 /\ b.runs = 0) =>
          timers.search.pending =
            (timers.search.timeout :> (SEARCH_DEBOUNCE_MS - b.quiet))

\* Reached: a burst of three events, and its one recomputation has run.
C26_Witness ==
  /\ bursts.search.events = MaxBurst /\ bursts.search.runs = 1
  /\ bursts.search.ranWith = <<"A", " ">> /\ currentFilters.search = <<"a">>
  /\ rendered.status = "ok"

\* C27: of the input events of a repository's notes field since the last one
\* that followed a write, at most one setNotes write has been issued; it was
\* issued 1000 ms after the last event, with the text of the last event; while
\* none has been issued, exactly one timeout is pending, due 1000 ms after the
\* last event.
C27_NotesBurstWritesOnce ==
  \A r \in RepoIds :
    LET b == bursts.notes[r]
    IN /\ b.runs <= 1
       /\ b.runs = 1 => /\ b.ranAt = NOTES_DEBOUNCE_MS
                        /\ b.ranWith = b.last
                        /\ repos[r].notes = b.last
                        /\ lastDone.id = r =>
                             (lastDone.op = "setNotes" /\ lastDone.text = b.last)
                        /\ timers.notes[r].pending = EmptyFn
       /\ (b.events > 0 /\ b.runs = 0) =>
            timers.notes[r].pending =
              (timers.notes[r].timeout :> (NOTES_DEBOUNCE_MS - b.quiet))

\* Reached: a burst of three events of the notes field of repository 1, and
\* its one write has been issued and stored.
C27_Witness ==
  /\ bursts.notes[1].events = MaxBurst /\ bursts.notes[1].runs = 1
  /\ bursts.notes[1].ranWith = <<"a", " ">>
  /\ lastDone.op = "setNotes" /\ lastDone.ret /\ lastDone.text = <<"a", " ">>
  /\ GetNotes(1) # <<>>


\* -------------------------------------------------------------- claim C28
\* C28: in the local backend, once setNotes with a text whose trimmed form is
\* not empty has returned true, the repository's notes key holds exactly the
\* trimmed text, and getNotes returns the trimmed text.
C28_LocalNotesStoredTrimmed ==
  (/\ ~useSupabase /\ lastDone.op = "setNotes" /\ lastDone.ret
   /\ ~IsBlank(lastDone.text)) =>
    LET key == KeyOf(NOTES_PREFIX, lastDone.id)
    IN /\ HasItem(localStorage, key)
       /\ localStorage[key] = Trim(lastDone.text)
       /\ GetNotes(lastDone.id) = Trim(lastDone.text)


\* --------------------------- SpecBackends: one sequence of calls, two backends
\* Each call of the sequence is made on the local backend (localStorage) and
\* on the remote backend (tagRows, noteRows), runs alone to its end, and no
\* request of it fails.

\* setCustomTags(r, tags) on both backends. The remote insert of a list that
\* repeats a tag is rejected, which is a failure: such a call is left out.
BackendsSetCustomTags(r, tags) ==
  /\ ~UniqueViolation(RemoteDeleteTags(tagRows, r), RowsOf(r, tags))
  /\ localStorage' = SetCustomTagsAlone(FALSE, StoreNow, r, JsStrings(tags)).localStorage
  /\ tagRows' = SetCustomTagsAlone(TRUE, StoreNow, r, JsStrings(tags)).tagRows
  /\ lastDone' = [NoDone EXCEPT !.op = "setCustomTags", !.id = r, !.tags = tags,
                                !.ret = TRUE]
  /\ UNCHANGED <<useSupabase, noteRows, calls, faults, consoleLog, repos, synced,
                 lastOp, rt,
                 imported, toast, filterVars, initVars, pageVars>>

\* setNotes(r, notes) on both backends.
BackendsSetNotes(r, notes) ==
  /\ localStorage' = SetNotesAlone(FALSE, StoreNow, r, JsString(notes)).localStorage
  /\ noteRows' = SetNotesAlone(TRUE, StoreNow, r, JsString(notes)).noteRows
  /\ lastDone' = [NoDone EXCEPT !.op = "setNotes", !.id = r, !.text = notes,
                                !.ret = TRUE]
  /\ UNCHANGED <<useSupabase, tagRows, calls, faults, consoleLog, repos, synced,
                 lastOp, rt,
                 imported, toast, filterVars, initVars, pageVars>>

NextBackends ==
  \/ \E r \in RepoIds : \E tags \in TagLists : BackendsSetCustomTags(r, tags)
  \/ \E r \in RepoIds : \E notes \in NoteInputs : BackendsSetNotes(r, notes)

SpecBackends == Init /\ [][NextBackends]_vars

\* -------------------------------------------------------------- claim C29
\* C29: after every failure-free sequence of setCustomTags and setNotes calls
\* made one at a time on both backends from empty stores, getCustomTags and
\* getNotes return the same value from the local and from the remote backend,
\* for every repository.
C29_BackendsInterchangeable ==
  \A r \in RepoIds :
    /\ LocalGetCustomTags(localStorage, r) = RemoteGetCustomTags(tagRows, r)
    /\ LocalGetNotes(localStorage, r) = RemoteGetNotes(noteRows, r)


\* -------------------------------------------------------------- claim C30
\* C30: with the local backend and no write having failed, after any sequence
\* of card edits (tags added, tags removed, notes saved by the debounced
\* handler) the record of every repository agrees with the store: its
\* custom_tags is the stored tag list and its notes is what getNotes returns.
C30_RecordAgreesWithStore ==
  (~useSupabase /\ faults = 0) =>
    \A r \in RepoIds :
      /\ repos[r].custom_tags = GetCustomTags(r)
      /\ repos[r].notes = GetNotes(r)

====
